---- MODULE Spec2Model ----
(***************************************************************************)
(* Timetable core of the Recode bot: the HTML-table parser, the weekly     *)
(* cache of the Schedule Service and the watchdog diff/notification loop.  *)
(*                                                                         *)
(* Dates are day numbers; day 0 is a Monday, so datetime.weekday() is      *)
(* d % 7 and a timedelta is integer addition.  A date string dd.mm.yyyy is *)
(* represented by the day number it denotes.                               *)
(*                                                                         *)
(* Text that the sources hold in Cyrillic is written in ASCII here.  The   *)
(* literals of schedule_service.py are stored in that file as the          *)
(* Mac-Roman reading of their UTF-8 bytes, so they are different strings   *)
(* from the literals of schedule_watchdog.py; the model keeps them apart   *)
(* (SvcPara /= WdPara, and so on).                                         *)
(***************************************************************************)
EXTENDS Integers, Sequences, FiniteSets, TLC

VARIABLES
    parseIn,      \* parser: the fetch outcome and page handed to parse_schedule
    parseOut,     \* parser: what parse_schedule returned (or that it raised)
    reparse,      \* parser: what later calls of parse_schedule returned
    cache,        \* schedule service: the files of schedule_dir
    site,         \* what the source of each group currently serves
    call,         \* schedule service: observation of the last call
    subjects,     \* schedule service: what get_unique_subjects_for_week returned last
    race,         \* schedule service: the calls in flight, one per caller
    disk,         \* watchdog files as the storage operations find them
    oldSlots,     \* _build_changes: argument old_slots
    newSlots,     \* _build_changes: argument new_slots
    changes,      \* _build_changes: returned (removed, added, changed)
    dayLines,     \* the lessons lines of an old and a fresh day, pair by pair
    computed,     \* fingerprints computed so far, with the key orders of the dicts
    now,          \* watchdog: the current date
    overlayFile,  \* watchdog: schedule_overlay.json
    overlayAll,   \* watchdog: overlay_all read at the start of the cycle
    targets,      \* watchdog: targets computed at the start of the cycle
    queue,        \* watchdog: (group, target) iterations left in the cycle
    snap,         \* watchdog: the files of watchdog_schedule
    state,        \* watchdog: in-memory fingerprint map
    stateFile,    \* watchdog: watchdog_state.json
    users,        \* the users table
    iter,         \* watchdog: observation of the last iteration
    notified,     \* watchdog: (group, date) and day of the last notification sent
    overwritten,  \* watchdog: (group, date) and fingerprint the last dispatch replaced
    weekAtStart   \* watchdog: the files of watchdog_schedule when the cycle started

vars == <<parseIn, parseOut, reparse, cache, site, call, subjects, race, disk, oldSlots, newSlots, changes, dayLines,
          computed, now, overlayFile, overlayAll, targets, queue, snap, state,
          stateFile, users, iter, notified, overwritten, weekAtStart>>

parseVars == <<parseIn, parseOut, reparse>>
cacheVars == <<cache, site, call, subjects, race, disk>>
diffVars == <<oldSlots, newSlots, changes, dayLines, computed>>
dogVars == <<now, overlayFile, overlayAll, targets, queue, snap, state,
             stateFile, users, iter, notified, overwritten, weekAtStart>>

(***************************************************************************)
(* Generic helpers                                                         *)
(***************************************************************************)
EmptyMap == <<>>

Put(m, k, v) == [x \in (DOMAIN m) \cup {k} |-> IF x = k THEN v ELSE m[x]]

Get(m, k, dflt) == IF k \in DOMAIN m THEN m[k] ELSE dflt

Min(a, b) == IF a < b THEN a ELSE b

\* Python's None
None == "<None>"

(***************************************************************************)
(* Week windows                                                            *)
(***************************************************************************)
weekday(d) == d % 7

week_bounds_mon_sun(d) ==
    LET monday == d - weekday(d)
    IN  <<monday, monday + 6>>

\* lines 26-35 without the roll of a Saturday or Sunday to the next week
week_mon_sat_no_roll(now_date) ==
    LET monday == now_date - weekday(now_date)
    IN  <<monday, monday + 5>>

week_mon_sat_for_display(now_date) ==
    LET wd == weekday(now_date)
        base == IF wd \in {5, 6} THEN now_date + (7 - wd) ELSE now_date
        monday == base - weekday(base)
    IN  <<monday, monday + 5>>

(***************************************************************************)
(* Table parser (schedule_service.parse_schedule)                          *)
(*                                                                         *)
(* A page is [table, rows].  A row is [date, hd, cells]:                   *)
(*   date   NoDateCell when the row has no td with a rowspan, otherwise    *)
(*          [d, day]: d is the date _DATE_RE finds in the cell text (-1    *)
(*          when the text does not match) and day the text after it;       *)
(*   hd     the text of the first td of class hd: [kind, n] with kind      *)
(*          "none" (no such td, or text that is not all digits), "num"     *)
(*          (ASCII digits, value n) or "sup" (a digit such as a            *)
(*          superscript two: str.isdigit() is true, int() raises);         *)
(*   cells  the tds after the hd cell: [span, ur, subj, room, teacher].    *)
(***************************************************************************)
BlockRows == 8

NumPairs == 8

NoDateCell == [d |-> -2, day |-> ""]

\* the literals of schedule_service.py lines 162-187 (Mac-Roman readings)
SvcPara == "para~macroman"

SvcNet == "NET~macroman"

SvcB1 == "(1)~macroman"

SvcB2 == "(2)~macroman"

JoinParts(parts) ==
    LET ne == SelectSeq(parts, LAMBDA p : p # "")
    IN  IF Len(ne) = 0 THEN ""
        ELSE IF Len(ne) = 1 THEN ne[1]
        ELSE IF Len(ne) = 2 THEN ne[1] \o " | " \o ne[2]
        ELSE ne[1] \o " | " \o ne[2] \o " | " \o ne[3]

_mk_full_title(cell) == JoinParts(<<cell.subj, cell.room, cell.teacher>>)

\* lines 116-131: the cells expanded over the five logical columns
RECURSIVE FillGroups(_, _, _, _)
FillGroups(cells, idx, col, groups) ==
    IF idx > Len(cells) THEN groups
    ELSE LET cell == cells[idx]
             content == IF cell.ur THEN _mk_full_title(cell) ELSE None
             filled == [j \in 1..5 |->
                          IF j - 1 >= col /\ j - 1 < col + cell.span
                          THEN content ELSE groups[j]]
         IN  FillGroups(cells, idx + 1, col + cell.span, filled)

Truthy(x) == x # None /\ x # ""

\* lines 132-157 without the comparison of line 146: two populated subgroup
\* columns are always recorded as two columns
RecordPair_no_collapse(info, pair_num, groups) ==
    LET first == groups[1]
        second == groups[2]
        common == IF groups[3] # None THEN groups[3]
                  ELSE IF groups[4] # None THEN groups[4]
                  ELSE groups[5]
        k == <<"int", pair_num>>
    IN  IF \A j \in 1..5 : groups[j] = None THEN info
        ELSE IF Truthy(common)
        THEN [info EXCEPT !.merge = Put(@, k, common),
                          !.pairs = Put(@, k, <<common>>)]
        ELSE IF Truthy(first) /\ Truthy(second)
        THEN [info EXCEPT !.pairs_cols = Put(@, k, <<first, second>>),
                          !.pairs = Put(@, k, <<first, second>>)]
        ELSE IF Truthy(first)
        THEN [info EXCEPT !.pairs_cols = Put(@, k, <<first, "">>),
                          !.pairs = Put(@, k, <<first>>)]
        ELSE IF Truthy(second)
        THEN [info EXCEPT !.pairs_cols = Put(@, k, <<"", second>>),
                          !.pairs = Put(@, k, <<second>>)]
        ELSE info

\* lines 132-157: one pair row recorded into the day's info
RecordPair(info, pair_num, groups) ==
    LET first == groups[1]
        second == groups[2]
        common == IF groups[3] # None THEN groups[3]
                  ELSE IF groups[4] # None THEN groups[4]
                  ELSE groups[5]
        k == <<"int", pair_num>>
    IN  IF \A j \in 1..5 : groups[j] = None THEN info
        ELSE IF Truthy(common)
        THEN [info EXCEPT !.merge = Put(@, k, common),
                          !.pairs = Put(@, k, <<common>>)]
        ELSE IF Truthy(first) /\ Truthy(second)
        THEN IF first = second
             THEN [info EXCEPT !.merge = Put(@, k, first),
                               !.pairs = Put(@, k, <<first>>)]
             ELSE [info EXCEPT !.pairs_cols = Put(@, k, <<first, second>>),
                               !.pairs = Put(@, k, <<first, second>>)]
        ELSE IF Truthy(first)
        THEN [info EXCEPT !.pairs_cols = Put(@, k, <<first, "">>),
                          !.pairs = Put(@, k, <<first>>)]
        ELSE IF Truthy(second)
        THEN [info EXCEPT !.pairs_cols = Put(@, k, <<"", second>>),
                          !.pairs = Put(@, k, <<second>>)]
        ELSE info

\* lines 102-157: the rows of one date block; [raised, info]
RECURSIVE DayRows(_, _, _)
DayRows(day_rows, idx, info) ==
    IF idx > Len(day_rows) THEN [raised |-> FALSE, info |-> info]
    ELSE LET dr == day_rows[idx]
         IN  IF dr.hd.kind = "sup" THEN [raised |-> TRUE, info |-> info]
             ELSE IF dr.hd.kind = "none" THEN DayRows(day_rows, idx + 1, info)
             ELSE DayRows(day_rows, idx + 1,
                          RecordPair(info, dr.hd.n,
                                     FillGroups(dr.cells, 1, 0, [j \in 1..5 |-> None])))

NewInfo(dayname) ==
    [day |-> dayname, pairs |-> EmptyMap, pairs_cols |-> EmptyMap,
     merge |-> EmptyMap, lessons |-> <<>>]

\* variant: a date cell whose text does not match leaves the date as it was,
\* and the rows of its block are read under the date parsed before it
RECURSIVE ScanRows_stale_date(_, _, _)
ScanRows_stale_date(rows, i, schedule) ==
    IF i > Len(rows) THEN [raised |-> FALSE, schedule |-> schedule]
    ELSE LET row == rows[i]
             before == {j \in 1..(i - 1) : rows[j].date # NoDateCell /\ rows[j].date.d >= 0}
         IN  IF row.date = NoDateCell THEN ScanRows_stale_date(rows, i + 1, schedule)
             ELSE IF row.date.d < 0 /\ before = {}
             THEN ScanRows_stale_date(rows, i + 1, schedule)
             ELSE LET last == CHOOSE j \in before : \A k \in before : k <= j
                      cell == IF row.date.d < 0 THEN rows[last].date ELSE row.date
                      date == cell.d
                      cur == Get(schedule, date, NewInfo(cell.day))
                      day_rows == SubSeq(rows, i, Min(i + BlockRows - 1, Len(rows)))
                      res == DayRows(day_rows, 1, cur)
                  IN  IF res.raised
                      THEN [raised |-> TRUE, schedule |-> Put(schedule, date, res.info)]
                      ELSE ScanRows_stale_date(rows, i + BlockRows,
                                               Put(schedule, date, res.info))

\* lines 84-101: the row scan; [raised, schedule]
RECURSIVE ScanRows(_, _, _)
ScanRows(rows, i, schedule) ==
    IF i > Len(rows) THEN [raised |-> FALSE, schedule |-> schedule]
    ELSE LET row == rows[i]
         IN  IF row.date = NoDateCell THEN ScanRows(rows, i + 1, schedule)
             ELSE IF row.date.d < 0 THEN ScanRows(rows, i + 1, schedule)
             ELSE LET date == row.date.d
                      cur == Get(schedule, date, NewInfo(row.date.day))
                      day_rows == SubSeq(rows, i, Min(i + BlockRows - 1, Len(rows)))
                      res == DayRows(day_rows, 1, cur)
                  IN  IF res.raised
                      THEN [raised |-> TRUE, schedule |-> Put(schedule, date, res.info)]
                      ELSE ScanRows(rows, i + BlockRows, Put(schedule, date, res.info))

Line(n, w, b, s) == [n |-> n, w |-> w, b |-> b, s |-> s]

\* lines 160-187: the lines of one pair
PairLines(info, i_pair) ==
    LET k == <<"int", i_pair>>
        cols == Get(info.pairs_cols, k, <<>>)
        items == Get(info.pairs, k, <<>>)
    IN  IF k \in DOMAIN info.merge
        THEN <<Line(i_pair, SvcPara, "", info.merge[k])>>
        ELSE IF cols = <<>>
        THEN IF items = <<>> THEN <<Line(i_pair, SvcPara, "", SvcNet)>>
             ELSE IF Len(items) = 1 THEN <<Line(i_pair, SvcPara, "", items[1])>>
             ELSE <<Line(i_pair, SvcPara, "", ""),
                    Line(-1, "", SvcB1, items[1]),
                    Line(-1, "", SvcB2, items[2])>>
        ELSE IF cols[1] = "" /\ cols[2] = ""
        THEN <<Line(i_pair, SvcPara, "", SvcNet)>>
        ELSE IF cols[1] # "" /\ cols[2] # ""
        THEN <<Line(i_pair, SvcPara, "", ""),
               Line(-1, "", SvcB1, cols[1]),
               Line(-1, "", SvcB2, cols[2])>>
        ELSE IF cols[1] # ""
        THEN <<Line(i_pair, SvcPara, SvcB1, cols[1])>>
        ELSE <<Line(i_pair, SvcPara, SvcB2, cols[2])>>

RECURSIVE LessonLines(_, _)
LessonLines(info, i_pair) ==
    IF i_pair > NumPairs THEN <<>>
    ELSE PairLines(info, i_pair) \o LessonLines(info, i_pair + 1)

WithLessons(schedule) ==
    [d \in DOMAIN schedule |->
        [schedule[d] EXCEPT !.lessons = LessonLines(schedule[d], 1)]]

\* lines 64-72: fetch_page; [raised, html]
fetch_page(in) ==
    IF in.net # "ok" THEN [raised |-> TRUE, html |-> None]
    ELSE IF in.status # 200 THEN [raised |-> TRUE, html |-> None]
    ELSE [raised |-> FALSE, html |-> in.page]

\* lines 75-192: the body of the try block; [raised, schedule]
ParseBody(in) ==
    LET f == fetch_page(in)
    IN  IF f.raised THEN [raised |-> TRUE, schedule |-> EmptyMap]
        ELSE IF ~f.html.table THEN [raised |-> FALSE, schedule |-> EmptyMap]
        ELSE LET r == ScanRows(f.html.rows, 1, EmptyMap)
             IN  IF r.raised THEN r
                 ELSE [raised |-> FALSE, schedule |-> WithLessons(r.schedule)]

\* lines 190-192 returning the schedule built so far instead of {}
parse_schedule_partial(in) ==
    LET r == ParseBody(in)
    IN  [raised |-> FALSE, value |-> r.schedule]

\* lines 75-192: what a caller of parse_schedule observes; [raised, value]
parse_schedule(in) ==
    LET r == ParseBody(in)
    IN  IF r.raised THEN [raised |-> FALSE, value |-> EmptyMap]
        ELSE [raised |-> FALSE, value |-> r.schedule]

\* variant: the dict the calls fill is shared between the calls
parse_schedule_shared(kept, in) ==
    LET new == parse_schedule(in).value
    IN  [raised |-> FALSE,
         value |-> [d \in (DOMAIN kept) \cup (DOMAIN new) |->
                       IF d \in DOMAIN new THEN new[d] ELSE kept[d]]]

\* lines 75-192 called after earlier calls, the last of which built kept: the
\* dict the call fills is its own (line 83) and nothing of the module outlives
\* a call
parse_schedule_after(kept, in) == parse_schedule(in)

(***************************************************************************)
(* Inputs of the parser specification                                      *)
(***************************************************************************)
MaxRows == 2

CellA == [span |-> 1, ur |-> TRUE, subj |-> "A", room |-> "R1", teacher |-> "T1"]

CellB == [span |-> 1, ur |-> TRUE, subj |-> "B", room |-> "", teacher |-> ""]

CellNone == [span |-> 1, ur |-> FALSE, subj |-> "", room |-> "", teacher |-> ""]

DateCells ==
    {NoDateCell, [d |-> -1, day |-> ""], [d |-> 0, day |-> "Mon"], [d |-> 1, day |-> "Tue"]}

HdCells == {[kind |-> "none", n |-> 0], [kind |-> "num", n |-> 1], [kind |-> "sup", n |-> 2]}

CellRows == {<<CellA>>, <<CellNone, CellB>>}

RowKinds == [date : DateCells, hd : HdCells, cells : CellRows]

RowSeqs == UNION {[1..n -> RowKinds] : n \in 0..MaxRows}

ParseInputs ==
    {[net |-> n, status |-> 0, page |-> [table |-> FALSE, rows |-> <<>>]] :
        n \in {"neterr", "timeout"}}
    \cup {[net |-> "ok", status |-> st, page |-> [table |-> FALSE, rows |-> <<>>]] :
            st \in {200, 204, 404, 500}}
    \cup {[net |-> "ok", status |-> 200, page |-> [table |-> TRUE, rows |-> rs]] :
            rs \in RowSeqs}

NoInput == [net |-> "none", status |-> 0, page |-> [table |-> FALSE, rows |-> <<>>]]

\* a td of class ur without any text
CellBlank == [span |-> 1, ur |-> TRUE, subj |-> "", room |-> "", teacher |-> ""]

\* a lesson cell with a colspan
CellWide(subj, span) ==
    [span |-> span, ur |-> TRUE, subj |-> subj, room |-> "", teacher |-> ""]

\* the cells after the hd cell of one pair row: up to five tds without colspan,
\* or tds with a colspan
PairCells ==
    UNION {[1..n -> {CellA, CellB, CellNone, CellBlank}] : n \in 1..5}
    \cup {<<CellWide("A", 5)>>, <<CellWide("A", 2)>>, <<CellWide("B", 2), CellA>>,
          <<CellNone, CellNone, CellWide("B", 3)>>, <<CellA, CellWide("B", 6)>>}

\* a page whose table is the first row of one date block, holding pair 1
RowPage(cells) ==
    [table |-> TRUE,
     rows |-> <<[date |-> [d |-> 0, day |-> "Mon"], hd |-> [kind |-> "num", n |-> 1],
                cells |-> cells]>>]

PageInputs ==
    {[net |-> "ok", status |-> 200, page |-> RowPage(cells)] : cells \in PairCells}

\* the date cells of the block pages: two dates, and a text that does not
\* match _DATE_RE
BlockDates == {[d |-> 0, day |-> "Mon"], [d |-> 1, day |-> "Tue"], [d |-> -1, day |-> ""]}

\* what a block holds: the cells of its pairs 1 and 2
BlockLessons == {<<<<CellA>>, <<CellNone>>>>, <<<<CellNone, CellB>>, <<CellB>>>>,
                 <<<<CellNone>>, <<CellA>>>>}

\* a date block of the page: len rows, the first one carrying the date cell
\* with its row-span, one row per pair
DateBlock(date, lessons, len) ==
    [k \in 1..len |->
        [date |-> IF k = 1 THEN date ELSE NoDateCell,
         hd |-> [kind |-> "num", n |-> k],
         cells |-> IF k <= Len(lessons) THEN lessons[k] ELSE <<CellNone>>]]

MaxBlocks == 3

\* a block with a date has its 8 rows; a block whose date cannot be read has
\* 8 rows or 2
BlockKinds ==
    {b \in [date : BlockDates, lessons : BlockLessons, len : {2, BlockRows}] :
        b.date.d >= 0 => b.len = BlockRows}

BlockSeqs == UNION {[1..n -> BlockKinds] : n \in 1..MaxBlocks}

RECURSIVE RowsOfBlocks(_)
RowsOfBlocks(bs) ==
    IF bs = <<>> THEN <<>>
    ELSE DateBlock(bs[1].date, bs[1].lessons, bs[1].len) \o RowsOfBlocks(Tail(bs))

BlockPage(bs) == [table |-> TRUE, rows |-> RowsOfBlocks(bs)]

\* date blocks with a readable date and 2, 3 or 8 rows
ShortBlockKinds ==
    {b \in [date : BlockDates, lessons : BlockLessons, len : {2, 3, BlockRows}] :
        b.date.d >= 0}

\* pages of one or two such blocks
ShortBlockInputs ==
    {[net |-> "ok", status |-> 200, page |-> BlockPage(bs)] :
        bs \in UNION {[1..n -> ShortBlockKinds] : n \in 1..2}}

BlockInputs ==
    {[net |-> "ok", status |-> 200, page |-> BlockPage(bs)] : bs \in BlockSeqs}

NotCalled == [called |-> FALSE, raised |-> FALSE, value |-> EmptyMap]

(***************************************************************************)
(* Weekly cache of the Schedule Service                                    *)
(*                                                                         *)
(* A group code is the sequence of its characters.  A file of schedule_dir *)
(* is [stem, data]: stem is the file name without ".json", a sequence of   *)
(* the characters of the group code, "_", and the range part as one token; *)
(* data is the JSON value the file holds.                                  *)
(***************************************************************************)
MaxDate == 9

Dates == 0..MaxDate

GroupG == <<"G">>

GroupGX == <<"G", "_", "X">>

GroupN == <<"N">>

Groups == {GroupG, GroupGX, GroupN}

\* url_map: GroupN is a group code the service is asked about but has no URL for
url_map == [g \in Groups |-> IF g = GroupN THEN None ELSE "url"]

\* strftime('%d.%m.%y')
DateStr(d) == ToString(d)

\* lines 565-567
_schedule_filename(group_code, monday, saturday) ==
    group_code \o <<"_", DateStr(monday), "-", DateStr(saturday)>>

\* strptime(s, '%d.%m.%y'): [ok, date]
StrpDate(str) ==
    LET cands == {d \in 0..(MaxDate + 14) : DateStr(d) = str}
    IN  IF cands = {} THEN [ok |-> FALSE, date |-> 0]
        ELSE [ok |-> TRUE, date |-> CHOOSE d \in cands : TRUE]

\* stem.rsplit("_", 1), split("-", 1) and the two strptime calls:
\* [ok, start, end]; ok is FALSE where the code takes the except branch
ParseStem(stem) ==
    LET n == Len(stem)
        bad == [ok |-> FALSE, start |-> 0, end |-> 0]
    IN  IF n < 4 \/ stem[n - 3] # "_" \/ stem[n - 1] # "-" THEN bad
        ELSE LET st == StrpDate(stem[n - 2])
                 en == StrpDate(stem[n])
             IN  IF st.ok /\ en.ok
                 THEN [ok |-> TRUE, start |-> st.date, end |-> en.date]
                 ELSE bad

\* glob(f"{group_code}_*.json")
GlobMatches(group_code, stem) ==
    /\ Len(stem) >= Len(group_code) + 1
    /\ SubSeq(stem, 1, Len(group_code) + 1) = group_code \o <<"_">>

\* json.dump followed by json.load: the int keys of a dict come back as strings
JsonKeys(m) ==
    [k \in {<<"str", x[2]>> : x \in DOMAIN m} |->
        IF <<"int", k[2]>> \in DOMAIN m THEN m[<<"int", k[2]>>] ELSE m[k]]

JsonInfo(info) ==
    [info EXCEPT !.pairs = JsonKeys(@), !.pairs_cols = JsonKeys(@), !.merge = JsonKeys(@)]

JsonSchedule(schedule) == [d \in DOMAIN schedule |-> JsonInfo(schedule[d])]

\* lines 569-586: the files left by the sweep
_cleanup_old_files(files, current_date) ==
    LET monday_current == week_mon_sat_for_display(current_date)[1]
    IN  {f \in files :
            LET r == ParseStem(f.stem)
            IN  ~(r.ok /\ r.end < monday_current)}

\* lines 588-607: the files whose schedule the scan may return
LoadHits(files, group_code, target_date) ==
    {f \in files :
        /\ GlobMatches(group_code, f.stem)
        /\ LET r == ParseStem(f.stem)
           IN  r.ok /\ r.start <= target_date /\ target_date <= r.end}

\* lines 609-622 merging the new schedule into the stored one
_save_schedule_merge(files, group_code, base_date, schedule) ==
    LET w == week_mon_sat_for_display(base_date)
        stem == _schedule_filename(group_code, w[1], w[2])
        old == {f \in files : f.stem = stem}
        js == JsonSchedule(schedule)
        merged == IF old = {} THEN js
                  ELSE LET o == (CHOOSE f \in old : TRUE).data.schedule
                       IN  [d \in (DOMAIN o) \cup (DOMAIN js) |->
                              IF d \in DOMAIN js THEN js[d] ELSE o[d]]
    IN  {f \in files : f.stem # stem}
        \cup {[stem |-> stem,
               data |-> [group |-> group_code, monday |-> w[1], saturday |-> w[2],
                         schedule |-> merged]]}

\* lines 609-622 keyed by the Monday-Sunday week of base_date
_save_schedule_mon_sun(files, group_code, base_date, schedule) ==
    LET w == week_bounds_mon_sun(base_date)
        stem == _schedule_filename(group_code, w[1], w[2])
    IN  {f \in files : f.stem # stem}
        \cup {[stem |-> stem,
               data |-> [group |-> group_code, monday |-> w[1], saturday |-> w[2],
                         schedule |-> JsonSchedule(schedule)]]}

\* lines 609-622: the files after the write
_save_schedule(files, group_code, base_date, schedule) ==
    LET w == week_mon_sat_for_display(base_date)
        stem == _schedule_filename(group_code, w[1], w[2])
    IN  {f \in files : f.stem # stem}
        \cup {[stem |-> stem,
               data |-> [group |-> group_code, monday |-> w[1], saturday |-> w[2],
                         schedule |-> JsonSchedule(schedule)]]}

\* lines 308-322: the lookups are made with the int pair_num
_pair_cells(info, pair_num) ==
    LET k == <<"int", pair_num>>
        merge == Get(info.merge, k, "")
        cols == Get(info.pairs_cols, k, <<>>)
        pairs == Get(info.pairs, k, <<>>)
    IN  IF merge # "" THEN <<merge, merge>>
        ELSE IF cols # <<>>
        THEN <<cols[1], IF Len(cols) > 1 THEN cols[2] ELSE "">>
        ELSE IF pairs = <<>> THEN <<"", "">>
        ELSE IF Len(pairs) = 1 THEN <<pairs[1], pairs[1]>>
        ELSE <<pairs[1], pairs[2]>>

\* lines 324-330: [raised, value]; max() of a str key and the int 8 raises
\* TypeError
_max_pairs_for_day(info) ==
    LET numbers == (DOMAIN info.pairs) \cup (DOMAIN info.pairs_cols) \cup (DOMAIN info.merge)
    IN  IF numbers = {} THEN [raised |-> FALSE, value |-> 8]
        ELSE IF \E k \in numbers : k[1] = "str" THEN [raised |-> TRUE, value |-> 0]
        ELSE LET m == CHOOSE k \in numbers : \A x \in numbers : x[2] <= k[2]
             IN  [raised |-> FALSE, value |-> IF m[2] > 8 THEN m[2] ELSE 8]

(***************************************************************************)
(* The source pages                                                        *)
(***************************************************************************)
DayNames == <<"Mon", "Tue", "Wed", "Thu", "Fri", "Sat", "Sun">>

LessonCell(subj, span) ==
    [span |-> span, ur |-> TRUE, subj |-> subj, room |-> "R1", teacher |-> ""]

\* the eight rows of the date block of day d: one pair holds the lesson subj
\* for the whole group (pair 2 for the lesson "B", pair 1 for the others), the
\* other pairs are empty
DayBlock(d, subj) ==
    [i \in 1..BlockRows |->
        [date |-> IF i = 1 THEN [d |-> d, day |-> DayNames[weekday(d) + 1]] ELSE NoDateCell,
         hd |-> [kind |-> "num", n |-> i],
         cells |-> IF i = (IF subj = "B" THEN 2 ELSE 1) THEN <<LessonCell(subj, 5)>>
                   ELSE <<CellNone>>]]

\* the page of a version: every version lists day 0 and day 6, version "B"
\* lists day 1 as well
RichVersion == "D"

\* a td of class ur that names a room only
CellRoom == [span |-> 1, ur |-> TRUE, subj |-> "", room |-> "R1", teacher |-> ""]

\* the eight rows of a date block of the page RichVersion: two subgroups with
\* different lessons in pair 1, one lesson of the whole group in pair 2, a
\* lesson of subgroup 2 in pair 3 and a room alone in pair 4
RichBlock(d) ==
    [i \in 1..BlockRows |->
        [date |-> IF i = 1 THEN [d |-> d, day |-> DayNames[weekday(d) + 1]] ELSE NoDateCell,
         hd |-> [kind |-> "num", n |-> i],
         cells |-> IF i = 1 THEN <<CellB, CellA>>
                   ELSE IF i = 2 THEN <<LessonCell("A", 5)>>
                   ELSE IF i = 3 THEN <<CellNone, CellB>>
                   ELSE IF i = 4 THEN <<CellRoom>>
                   ELSE <<CellNone>>]]

SitePage(v) ==
    [table |-> TRUE,
     rows |-> IF v = RichVersion THEN RichBlock(0) \o DayBlock(1, "A")
              ELSE IF v = "B" THEN DayBlock(0, v) \o DayBlock(1, v) \o DayBlock(6, v)
              ELSE DayBlock(0, v) \o DayBlock(6, v)]

SiteVersions == [g \in Groups |-> IF g = GroupGX THEN {"C"} ELSE {"A", "B"}]

\* the outcomes of one fetch of the page
FetchOutcomes(page) ==
    {[net |-> "ok", status |-> 200, page |-> page],
     [net |-> "ok", status |-> 500, page |-> page],
     [net |-> "timeout", status |-> 0, page |-> page]}

\* parse_schedule on every fetch outcome of every page a source can serve
AllVersions == UNION {SiteVersions[g] : g \in Groups} \cup {RichVersion}

Parsed ==
    [in \in UNION {FetchOutcomes(SitePage(v)) : v \in AllVersions} |->
        parse_schedule(in)]

(***************************************************************************)
(* Schedule Service: get_schedule_data and the other readers, all of which *)
(* are _fetch_schedule_for_group (lines 624-635)                           *)
(***************************************************************************)
\* call observes the last call: its arguments, the files before it and after its
\* sweep, whether the scan returned a file, whether the parser was called and
\* what it produced, whether the call raised and what it returned
NoCall ==
    [op |-> "none", g |-> GroupN, d |-> 0, before |-> {}, swept |-> {},
     hit |-> FALSE, fetched |-> FALSE, parsed |-> EmptyMap, raised |-> FALSE,
     ret |-> EmptyMap]

Returned(g, d, swept, hit, fetched, parsed, raised, ret) ==
    [op |-> "get", g |-> g, d |-> d, before |-> cache, swept |-> swept,
     hit |-> hit, fetched |-> fetched, parsed |-> parsed, raised |-> raised,
     ret |-> ret]

\* lines 624-635 with the scan of line 626 made before the sweep of line 625
get_schedule_data_scan_first(g, d) ==
    LET swept == _cleanup_old_files(cache, d)
        hits == LoadHits(cache, g, d)
    IN  /\ IF hits # {}
           THEN /\ \E f \in hits :
                      call' = Returned(g, d, swept, TRUE, FALSE, EmptyMap, FALSE,
                                       f.data.schedule)
                /\ cache' = swept
           ELSE IF url_map[g] = None
           THEN /\ call' = Returned(g, d, swept, FALSE, FALSE, EmptyMap, FALSE, EmptyMap)
                /\ cache' = swept
           ELSE \E in \in FetchOutcomes(SitePage(site[g])) :
                   LET schedule == Parsed[in].value
                   IN  /\ call' = Returned(g, d, swept, FALSE, TRUE, schedule,
                                        Parsed[in].raised, schedule)
                       /\ cache' = IF schedule # EmptyMap
                                   THEN _save_schedule(swept, g, d, schedule)
                                   ELSE swept
        /\ UNCHANGED site

\* lines 624-635
get_schedule_data(g, d) ==
    LET swept == _cleanup_old_files(cache, d)
        hits == LoadHits(swept, g, d)
    IN  /\ IF hits # {}
           THEN /\ \E f \in hits :
                      call' = Returned(g, d, swept, TRUE, FALSE, EmptyMap, FALSE,
                                       f.data.schedule)
                /\ cache' = swept
           ELSE IF url_map[g] = None
           THEN /\ call' = Returned(g, d, swept, FALSE, FALSE, EmptyMap, FALSE, EmptyMap)
                /\ cache' = swept
           ELSE \E in \in FetchOutcomes(SitePage(site[g])) :
                   LET schedule == Parsed[in].value
                   IN  /\ call' = Returned(g, d, swept, FALSE, TRUE, schedule,
                                        Parsed[in].raised, schedule)
                       /\ cache' = IF schedule # EmptyMap
                                   THEN _save_schedule(swept, g, d, schedule)
                                   ELSE swept
        /\ UNCHANGED site

\* the parts _mk_full_title can have joined into a lesson text
TitleParts ==
    {<<subj, room, teacher>> : subj \in {"", "A", "B", "C"} \cup AllVersions,
                               room \in {"", "R1"}, teacher \in {"", "T1"}}

\* raw.split("|")[0].strip() (lines 685-686, 692-693)
SubjectToken(raw) ==
    LET parts == CHOOSE p \in TitleParts : JoinParts(p) = raw
    IN  IF raw = "" THEN "" ELSE Head(SelectSeq(parts, LAMBDA x : x # ""))

\* the subject tokens of the model in the order sorted() gives them
SubjectOrder == <<"A", "B", "C", "D", "R1", "T1">>

\* lines 677-698 with the loop over pairs_dict left out
UniqueSubjects_merged_only(schedule) ==
    LET found == UNION {{SubjectToken(info.merge[k]) : k \in DOMAIN info.merge} :
                          info \in {schedule[d] : d \in DOMAIN schedule}}
    IN  SelectSeq(SubjectOrder, LAMBDA t : t \in found \ {""})

\* lines 679-698: the set of subject tokens over pairs and merge of every day,
\* sorted
UniqueSubjects(schedule) ==
    LET infos == {schedule[d] : d \in DOMAIN schedule}
        ofPairs == UNION {UNION {{SubjectToken(info.pairs[k][i]) :
                                    i \in DOMAIN info.pairs[k]} :
                                 k \in DOMAIN info.pairs} : info \in infos}
        ofMerge == UNION {{SubjectToken(info.merge[k]) : k \in DOMAIN info.merge} :
                            info \in infos}
    IN  SelectSeq(SubjectOrder, LAMBDA t : t \in (ofPairs \cup ofMerge) \ {""})

\* lines 677-698; the result is kept in a one-element sequence
get_unique_subjects_for_week(g, d) ==
    /\ get_schedule_data(g, d)
    /\ subjects' = <<UniqueSubjects(call'.ret)>>

\* the source of a group publishes another version of its page
SiteChange(g) ==
    /\ \E v \in SiteVersions[g] : v # site[g] /\ site' = [site EXCEPT ![g] = v]
    /\ UNCHANGED <<cache, call, subjects, race, disk>>

(***************************************************************************)
(* Calls of _fetch_schedule_for_group in flight.  The coroutine runs on    *)
(* the event loop: lines 625-631 run without interruption, line 632 hands  *)
(* the fetch to a thread and suspends the caller, lines 633-635 run when   *)
(* the thread has returned.                                                *)
(***************************************************************************)
Callers == {1, 2}

\* a caller: stage is "idle", "fetching" or "done"; g and d are the arguments,
\* miss says that the scan found nothing, fetched that the parser was called,
\* got is what the parser returned to this caller, ret what the call returned,
\* seq the order in which the fetches returned
Idle ==
    [stage |-> "idle", g |-> GroupN, d |-> 0, miss |-> FALSE, fetched |-> FALSE,
     got |-> EmptyMap, ret |-> EmptyMap, seq |-> 0]

\* lines 625-631: sweep, scan, URL lookup
BeginCall(c, g, d) ==
    LET swept == _cleanup_old_files(cache, d)
        hits == LoadHits(swept, g, d)
    IN  /\ race[c].stage = "idle"
        /\ cache' = swept
        /\ IF hits # {}
           THEN \E f \in hits :
                   race' = [race EXCEPT ![c] = [Idle EXCEPT !.stage = "done", !.g = g,
                                                  !.d = d, !.ret = f.data.schedule]]
           ELSE IF url_map[g] = None
           THEN race' = [race EXCEPT ![c] = [Idle EXCEPT !.stage = "done", !.g = g,
                                              !.d = d, !.miss = TRUE]]
           ELSE race' = [race EXCEPT ![c] = [Idle EXCEPT !.stage = "fetching", !.g = g,
                                              !.d = d, !.miss = TRUE]]
        /\ UNCHANGED <<site, call, subjects, disk>>

\* lines 633-635 returning what the cache holds for the week when another
\* caller has stored it meanwhile, without a write of its own
FetchReturned_coalesced(c, schedule) ==
    LET r == race[c]
        hits == LoadHits(cache, r.g, r.d)
        n == Cardinality({k \in Callers : race[k].fetched})
    IN  /\ cache' = IF schedule # EmptyMap /\ hits = {}
                    THEN _save_schedule(cache, r.g, r.d, schedule) ELSE cache
        /\ \E ret \in IF hits = {} THEN {schedule} ELSE {f.data.schedule : f \in hits} :
              race' = [race EXCEPT ![c] = [r EXCEPT !.stage = "done", !.fetched = TRUE,
                                              !.got = schedule, !.ret = ret,
                                              !.seq = n + 1]]

\* lines 633-635: the thread returned schedule to caller c
FetchReturned(c, schedule) ==
    LET r == race[c]
        n == Cardinality({k \in Callers : race[k].fetched})
    IN  /\ cache' = IF schedule # EmptyMap
                    THEN _save_schedule(cache, r.g, r.d, schedule) ELSE cache
        /\ race' = [race EXCEPT ![c] = [r EXCEPT !.stage = "done", !.fetched = TRUE,
                                           !.got = schedule, !.ret = schedule,
                                           !.seq = n + 1]]

\* line 632 and what follows it: the page is the one the source serves while
\* the thread runs
EndCall(c) ==
    /\ race[c].stage = "fetching"
    /\ \E in \in FetchOutcomes(SitePage(site[race[c].g])) :
          FetchReturned(c, Parsed[in].value)
    /\ UNCHANGED <<site, call, subjects, disk>>

(***************************************************************************)
(* Watchdog: slot lines, change lists, message                             *)
(*                                                                         *)
(* A line of a day's "lessons" is [n, w, b, s]: the leading number (-1     *)
(* when the line has none), the word between the number and the colon, a   *)
(* leading bullet of the rest and the text after it.                       *)
(***************************************************************************)
\* the word _HEADER_RE matches (line 14), in lower and in upper case
WdPara == "para"

WdParaUpper == "PARA"

\* the bullets _BULLET_RE strips (line 15)
WdBullets == {"(1)", "(2)", "*", "-"}

\* the texts _NO_RE matches in full (line 16)
WdNoTexts == {"net", "NET", "net par", "-", "--"}

\* the text after the colon of a header line, or a whole line without number
TailText(l) == IF l.b = "" THEN l.s ELSE IF l.s = "" THEN l.b ELSE l.b \o " " \o l.s

\* the whole line, cleaned
LineText(l) ==
    IF l.n < 0 THEN TailText(l)
    ELSE IF TailText(l) = "" THEN ToString(l.n) \o " " \o l.w \o ":"
    ELSE ToString(l.n) \o " " \o l.w \o ": " \o TailText(l)

HeaderMatches(l) == l.n >= 0 /\ l.w \in {WdPara, WdParaUpper}

\* _BULLET_RE.sub("", text) of the tail of a header line or of a line without number
StripBullet(l) == IF l.b \in WdBullets THEN l.s ELSE TailText(l)

\* lines 50-51 and 58-59: the items a line contributes
HeaderItem(l) ==
    IF TailText(l) # "" /\ TailText(l) \notin WdNoTexts /\ StripBullet(l) # ""
    THEN <<StripBullet(l)>> ELSE <<>>

NextItem(l) ==
    IF l.n >= 0 THEN <<LineText(l)>>
    ELSE IF TailText(l) # "" /\ TailText(l) \notin WdNoTexts /\ StripBullet(l) # ""
    THEN <<StripBullet(l)>> ELSE <<>>

\* lines 52-60: the items of the lines after a header, up to the next header;
\* [items, k]
RECURSIVE FollowItems(_, _, _)
FollowItems(lines, k, items) ==
    IF k > Len(lines) \/ HeaderMatches(lines[k]) THEN [items |-> items, k |-> k]
    ELSE FollowItems(lines, k + 1, items \o NextItem(lines[k]))

\* lines 36-63
RECURSIVE ParseSlotsFrom(_, _, _)
ParseSlotsFrom(lines, j, slots) ==
    IF j > Len(lines) THEN slots
    ELSE IF ~HeaderMatches(lines[j]) THEN ParseSlotsFrom(lines, j + 1, slots)
    ELSE LET r == FollowItems(lines, j + 1, HeaderItem(lines[j]))
         IN  ParseSlotsFrom(lines, r.k, Put(slots, lines[j].n, r.items))

_parse_slots(lines) == ParseSlotsFrom(lines, 1, EmptyMap)

\* lines 66-67
RECURSIVE JoinBar(_)
JoinBar(arr) ==
    IF arr = <<>> THEN ""
    ELSE IF Len(arr) = 1 THEN arr[1]
    ELSE arr[1] \o " | " \o JoinBar(Tail(arr))

_norm_join(arr) == JoinBar(SelectSeq(arr, LAMBDA x : x # ""))

\* sorted(all_keys)
RECURSIVE SortedKeys(_)
SortedKeys(S) ==
    IF S = {} THEN <<>>
    ELSE LET m == CHOOSE x \in S : \A y \in S : x <= y
         IN  <<m>> \o SortedKeys(S \ {m})

\* lines 78-90 comparing the item lists instead of the joined texts
RECURSIVE BuildFromLists(_, _, _, _)
BuildFromLists(keys, old_slots, new_slots, acc) ==
    IF keys = <<>> THEN acc
    ELSE LET k == Head(keys)
             o == Get(old_slots, k, <<>>)
             n == Get(new_slots, k, <<>>)
             o_s == _norm_join(o)
             n_s == _norm_join(n)
             nxt == IF o = <<>> /\ n = <<>> THEN acc
                    ELSE IF o # <<>> /\ n = <<>>
                    THEN <<Append(acc[1], <<k, o_s>>), acc[2], acc[3]>>
                    ELSE IF o = <<>> /\ n # <<>>
                    THEN <<acc[1], Append(acc[2], <<k, n_s>>), acc[3]>>
                    ELSE IF o # n
                    THEN <<acc[1], acc[2], Append(acc[3], <<k, o_s, n_s>>)>>
                    ELSE acc
         IN  BuildFromLists(Tail(keys), old_slots, new_slots, nxt)

_build_changes_lists(old_slots, new_slots) ==
    BuildFromLists(SortedKeys((DOMAIN old_slots) \cup (DOMAIN new_slots)),
                   old_slots, new_slots, <<<<>>, <<>>, <<>>>>)

\* lines 78-90: the loop over the sorted keys; acc is (removed, added, changed)
RECURSIVE BuildFrom(_, _, _, _)
BuildFrom(keys, old_slots, new_slots, acc) ==
    IF keys = <<>> THEN acc
    ELSE LET k == Head(keys)
             o_s == _norm_join(Get(old_slots, k, <<>>))
             n_s == _norm_join(Get(new_slots, k, <<>>))
             nxt == IF o_s = "" /\ n_s = "" THEN acc
                    ELSE IF o_s # "" /\ n_s = ""
                    THEN <<Append(acc[1], <<k, o_s>>), acc[2], acc[3]>>
                    ELSE IF o_s = "" /\ n_s # ""
                    THEN <<acc[1], Append(acc[2], <<k, n_s>>), acc[3]>>
                    ELSE IF o_s # n_s
                    THEN <<acc[1], acc[2], Append(acc[3], <<k, o_s, n_s>>)>>
                    ELSE acc
         IN  BuildFrom(Tail(keys), old_slots, new_slots, nxt)

\* lines 70-91
_build_changes(old_slots, new_slots) ==
    BuildFrom(SortedKeys((DOMAIN old_slots) \cup (DOMAIN new_slots)),
              old_slots, new_slots, <<<<>>, <<>>, <<>>>>)

\* variant: the keys are visited in the order the dicts hold them, the old
\* dict's first
_build_changes_unsorted(old_keys, old_slots, new_keys, new_slots) ==
    BuildFrom(old_keys \o SelectSeq(new_keys, LAMBDA k : k \notin DOMAIN old_slots),
              old_slots, new_slots, <<<<>>, <<>>, <<>>>>)

\* lines 70-91 on dicts that hold their keys in insertion order: all_keys is a
\* set (line 74) and the loop visits it sorted (line 78)
_build_changes_ordered(old_keys, old_slots, new_keys, new_slots) ==
    BuildFrom(SortedKeys({old_keys[i] : i \in DOMAIN old_keys}
                         \cup {new_keys[i] : i \in DOMAIN new_keys}),
              old_slots, new_slots, <<<<>>, <<>>, <<>>>>)

\* variant: the fresh day must have no pair at all
_should_skip_false_cancel_no_keys(old_slots, new_slots) ==
    LET o_cnt == Cardinality({k \in DOMAIN old_slots : _norm_join(old_slots[k]) # ""})
    IN  o_cnt > 0 /\ DOMAIN new_slots = {}

\* variant: no diff is held back as a total removal
_should_skip_false_cancel_never(old_slots, new_slots) == FALSE

\* lines 158-161
_should_skip_false_cancel(old_slots, new_slots) ==
    LET o_cnt == Cardinality({k \in DOMAIN old_slots : _norm_join(old_slots[k]) # ""})
        n_cnt == Cardinality({k \in DOMAIN new_slots : _norm_join(new_slots[k]) # ""})
    IN  o_cnt > 0 /\ n_cnt = 0

\* lines 248-251: json.dumps of the three lists
Fingerprint(ch) == [rem |-> ch[1], add |-> ch[2], chg |-> ch[3]]

(***************************************************************************)
(* Inputs of the change-list specification                                 *)
(***************************************************************************)
MaxKey == 2

SlotItems == {<<>>, <<"">>, <<"A">>, <<"B">>, <<"A", "B">>}

SlotMaps == UNION {[K -> SlotItems] : K \in SUBSET (1..MaxKey)}

\* slot maps whose pairs all hold a lesson
LessonMaps == UNION {[K -> {<<"A">>, <<"B">>}] : K \in SUBSET (1..MaxKey)}

\* the orders in which the keys S of a dict can have been inserted
Orders(S) ==
    {o \in [1..Cardinality(S) -> S] : \A i, j \in DOMAIN o : i # j => o[i] # o[j]}

(***************************************************************************)
(* Watchdog loop (schedule_watchdog.schedule_watchdog_loop)                *)
(***************************************************************************)
MaxNow == 6

\* the groups of url_map that have a URL, in the order of url_map.items()
TrackedGroups == <<GroupG, GroupGX>>

UserIds == 1..5

\* the users table: two subscribers of G, a banned one, one of G_X, and one of
\* G with the notifications switched off
UsersTable ==
    [u \in UserIds |->
        [group |-> IF u = 4 THEN GroupGX ELSE GroupG, blocked |-> FALSE,
         notify |-> (u # 5), banned |-> (u = 3)]]

\* an overlay entry: a day whose lessons an operator wrote
OvInfo(lessons) ==
    [day |-> "", pairs |-> EmptyMap, pairs_cols |-> EmptyMap, merge |-> EmptyMap,
     lessons |-> lessons]

OvA == OvInfo(<<Line(1, WdPara, "", "A | R1")>>)

OvB ==
    OvInfo(<<Line(1, WdPara, "", "B | R2"), Line(2, WdPara, "", ""),
             Line(-1, "", "(1)", "A"), Line(-1, "", "(2)", "B")>>)

\* a day whose only pair is marked as having no lesson
OvNone == OvInfo(<<Line(1, WdPara, "", "NET")>>)

\* the entries an operator may write for a date
OverlayChoices == (5 :> {OvA}) @@ (6 :> {OvA, OvB, OvNone})

\* lines 147-155
_safe_parse(in) == Parsed[in].value

\* lines 31-33 and schedule_service.normalize_day lines 217-220
_normalize_day_lines(info) == info.lessons

\* lines 226-233: the overlay entries of the target's week laid over the fetch
\* lines 226-233 left out: the overlay is not applied
ApplyOverlay_ignored(parsed, overlay, cmonday, csunday) == parsed

ApplyOverlay(parsed, overlay, cmonday, csunday) ==
    LET inweek == {d \in DOMAIN overlay : cmonday <= d /\ d <= csunday}
    IN  [d \in (DOMAIN parsed) \cup inweek |->
            IF d \in inweek THEN overlay[d] ELSE parsed[d]]

\* variant: the query does not look at the group
get_users_of_any_group(g) ==
    {u \in UserIds : ~users[u].blocked /\ users[u].notify}

\* db.py lines 755-780
get_users_for_schedule_notifications(g) ==
    {u \in UserIds : users[u].group = g /\ ~users[u].blocked /\ users[u].notify}

NoIter ==
    [g |-> GroupN, d |-> 0, kind |-> "none", old_slots |-> EmptyMap,
     new_slots |-> EmptyMap, ch |-> <<<<>>, <<>>, <<>>>>, sentTo |-> {},
     failed |-> {}, repeat |-> FALSE, again |-> FALSE, msg |-> <<>>,
     fetched |-> FALSE]

\* the day an iteration observed differs from the one last notified
Forget(key, new_info) ==
    IF notified # <<>> /\ notified[1] = key /\ notified[2] # new_info THEN <<>>
    ELSE notified

\* variant: a skipped iteration records the fingerprint of what it computed
Skip_recording(g, tgt, kind, old_slots, new_slots, ch, notified1, fetched) ==
    /\ iter' = [g |-> g, d |-> tgt, kind |-> kind, old_slots |-> old_slots,
                new_slots |-> new_slots, ch |-> ch, sentTo |-> {}, failed |-> {},
                repeat |-> FALSE, again |-> FALSE, msg |-> <<>>,
                fetched |-> fetched]
    /\ notified' = notified1
    /\ queue' = Tail(queue)
    /\ state' = Put(state, <<g, tgt>>, Fingerprint(ch))
    /\ stateFile' = Put(state, <<g, tgt>>, Fingerprint(ch))
    /\ UNCHANGED <<snap, users, overwritten>>

\* lines 110-118: the body of the message, one line per entry, the removals
\* first, then the additions, then the changes
BodyLines(ch) ==
    [i \in 1..Len(ch[1]) |-> <<"cancelled", ch[1][i][1], ch[1][i][2]>>]
    \o [i \in 1..Len(ch[2]) |-> <<"added", ch[2][i][1], ch[2][i][2]>>]
    \o [i \in 1..Len(ch[3]) |-> <<"changed", ch[3][i][1], ch[3][i][2], ch[3][i][3]>>]

\* lines 94-119
_format_message(group, ddate, ch) ==
    [group |-> group, date |-> ddate,
     body |-> IF BodyLines(ch) = <<>> THEN <<<<"no changes">>>> ELSE BodyLines(ch)]

\* variant: an iteration that ends without a dispatch drops the fingerprint of
\* its (group, date)
Skip_forgetting(g, tgt, kind, old_slots, new_slots, ch, notified1, fetched) ==
    /\ iter' = [g |-> g, d |-> tgt, kind |-> kind, old_slots |-> old_slots,
                new_slots |-> new_slots, ch |-> ch, sentTo |-> {}, failed |-> {},
                repeat |-> FALSE, again |-> FALSE, msg |-> <<>>,
                fetched |-> fetched]
    /\ notified' = notified1
    /\ queue' = Tail(queue)
    /\ state' = [k \in (DOMAIN state) \ {<<g, tgt>>} |-> state[k]]
    /\ stateFile' = state'
    /\ UNCHANGED <<snap, users, overwritten>>

\* lines 236-237, 244-247, 253-254: the iteration ends without a dispatch
Skip(g, tgt, kind, old_slots, new_slots, ch, notified1, fetched) ==
    /\ iter' = [g |-> g, d |-> tgt, kind |-> kind, old_slots |-> old_slots,
                new_slots |-> new_slots, ch |-> ch, sentTo |-> {}, failed |-> {},
                repeat |-> FALSE, again |-> FALSE, msg |-> <<>>,
                fetched |-> fetched]
    /\ notified' = notified1
    /\ queue' = Tail(queue)
    /\ UNCHANGED <<snap, state, stateFile, users, overwritten>>

\* lines 258-266: of the users served, the ones the message is sent to
Attempted(served) == {u \in served : ~users[u].banned}

\* lines 269-270 and db.py lines 249-255
set_user_blocked(failed) ==
    [u \in UserIds |->
        IF u \in failed THEN [users[u] EXCEPT !.blocked = TRUE] ELSE users[u]]

\* lines 255-273: the message goes to every eligible user that is not banned;
\* a failed send marks the user blocked; then the week and the fingerprint
\* are persisted
Dispatch(g, tgt, file, fresh, old_slots, new_slots, ch, fetched) ==
    LET key == <<g, tgt>>
        recipients == Attempted(get_users_for_schedule_notifications(g))
    IN  \E failed \in SUBSET recipients :
            /\ users' = set_user_blocked(failed)
            /\ snap' = Put(snap, file, JsonSchedule(fresh))
            /\ state' = Put(state, key, Fingerprint(ch))
            /\ stateFile' = Put(state, key, Fingerprint(ch))
            /\ iter' = [g |-> g, d |-> tgt, kind |-> "notified",
                        old_slots |-> old_slots, new_slots |-> new_slots, ch |-> ch,
                        sentTo |-> recipients, failed |-> failed,
                        repeat |-> notified = <<key, fresh[tgt]>>,
                        again |-> overwritten = <<key, Fingerprint(ch)>>,
                        msg |-> _format_message(g, tgt, ch),
                        fetched |-> fetched]
            /\ notified' = <<key, fresh[tgt]>>
            /\ overwritten' = IF key \in DOMAIN state THEN <<key, state[key]>>
                              ELSE overwritten
            /\ queue' = Tail(queue)

\* lines 256-270 with 274-275: the query for the recipients or the ban check of
\* a user raises, or the send to a user fails and what follows it raises too
\* (set_user_blocked of line 270, or the second send of line 268, which no
\* handler encloses); the handler of line 274 ends the cycle, and lines 271-273
\* are not reached
DispatchAborted(g, tgt, new_info, old_slots, new_slots, ch, fetched) ==
    LET key == <<g, tgt>>
        eligible == get_users_for_schedule_notifications(g)
        Aborted(sent, delivered) ==
            \* the sends that raised are the ones that delivered nothing
            /\ iter' = [g |-> g, d |-> tgt, kind |-> "aborted",
                        old_slots |-> old_slots, new_slots |-> new_slots, ch |-> ch,
                        sentTo |-> sent, failed |-> sent \ delivered,
                        repeat |-> notified = <<key, new_info>>,
                        again |-> overwritten = <<key, Fingerprint(ch)>>,
                        msg |-> _format_message(g, tgt, ch),
                        fetched |-> fetched]
            /\ notified' = IF delivered # {} THEN <<key, new_info>>
                           ELSE Forget(key, new_info)
    IN  /\ \/ /\ users' = users
              /\ Aborted({}, {})
           \/ \E u \in eligible : \E marking \in BOOLEAN :
                 LET before == Attempted({v \in eligible : v < u})
                 IN  /\ marking => ~users[u].banned
                     /\ \E failed \in SUBSET before :
                           /\ users' = set_user_blocked(failed)
                           /\ Aborted(before \cup (IF marking THEN {u} ELSE {}),
                                      before \ failed)
        /\ queue' = <<>>
        /\ UNCHANGED <<snap, state, stateFile, overwritten>>

\* lines 222-273: one (group, target) iteration
Iteration(g, tgt) ==
    LET w == week_bounds_mon_sun(tgt)
        file == <<g, w[1], w[2]>>
        old_week == Get(snap, file, EmptyMap)
    IN  \E in \in FetchOutcomes(SitePage(site[g])) :
            LET fresh == ApplyOverlay(_safe_parse(in), Get(overlayAll, g, EmptyMap),
                                      w[1], w[2])
                ok == in.net = "ok" /\ in.status = 200
            IN  IF tgt \notin DOMAIN fresh
                THEN Skip(g, tgt, "nodate", EmptyMap, EmptyMap, <<<<>>, <<>>, <<>>>>,
                          IF in.net # "ok" \/ in.status # 200 THEN notified
                          ELSE Forget(<<g, tgt>>, [day |-> "", lessons |-> <<>>]), ok)
                ELSE LET new_info == fresh[tgt]
                         old_info == Get(old_week, tgt, [day |-> "", lessons |-> <<>>])
                         old_slots == _parse_slots(_normalize_day_lines(old_info))
                         new_slots == _parse_slots(_normalize_day_lines(new_info))
                         ch == _build_changes(old_slots, new_slots)
                         forget == Forget(<<g, tgt>>, new_info)
                     IN  IF ch = <<<<>>, <<>>, <<>>>>
                         THEN Skip(g, tgt, "nochange", old_slots, new_slots, ch, forget, ok)
                         ELSE IF _should_skip_false_cancel(old_slots, new_slots)
                         THEN Skip(g, tgt, "falsecancel", old_slots, new_slots, ch, forget, ok)
                         ELSE IF <<g, tgt>> \in DOMAIN state
                                 /\ state[<<g, tgt>>] = Fingerprint(ch)
                         THEN Skip(g, tgt, "samefp", old_slots, new_slots, ch, forget, ok)
                         ELSE \/ Dispatch(g, tgt, file, fresh, old_slots, new_slots, ch, ok)
                              \/ DispatchAborted(g, tgt, new_info, old_slots,
                                                 new_slots, ch, ok)

Iterate ==
    /\ queue # <<>>
    /\ Iteration(queue[1][1], queue[1][2])
    \* overlay_all and targets are assigned anew at the start of every cycle
    \* before they are read: after the last iteration they hold nothing
    /\ overlayAll' = IF queue' = <<>> THEN EmptyMap ELSE overlayAll
    /\ targets' = IF queue' = <<>> THEN <<>> ELSE targets
    /\ weekAtStart' = IF queue' = <<>> THEN EmptyMap ELSE weekAtStart
    /\ UNCHANGED <<now, overlayFile>>

\* variant: the loop ends when an exception reached the handler of the cycle
CycleStart_unless_aborted ==
    /\ iter.kind # "aborted"
    /\ queue = <<>>
    /\ overlayAll' = overlayFile
    /\ targets' = <<now, now + 1>>
    /\ queue' = [i \in 1..(2 * Len(TrackedGroups)) |->
                    <<TrackedGroups[(i + 1) \div 2], IF i % 2 = 1 THEN now ELSE now + 1>>]
    /\ iter' = NoIter
    /\ weekAtStart' = snap
    /\ UNCHANGED <<now, overlayFile, snap, state, stateFile, users, notified,
                   overwritten>>

\* lines 207-221: a cycle starts after the sleep that ended the one before
CycleStart ==
    /\ queue = <<>>
    /\ overlayAll' = overlayFile
    /\ targets' = <<now, now + 1>>
    /\ queue' = [i \in 1..(2 * Len(TrackedGroups)) |->
                    <<TrackedGroups[(i + 1) \div 2], IF i % 2 = 1 THEN now ELSE now + 1>>]
    /\ iter' = NoIter
    /\ weekAtStart' = snap
    /\ UNCHANGED <<now, overlayFile, snap, state, stateFile, users, notified,
                   overwritten>>

\* midnight passes; the loop reads the date when a cycle starts
Tick ==
    /\ queue = <<>>
    /\ now < MaxNow
    /\ now' = now + 1
    /\ UNCHANGED <<overlayFile, overlayAll, targets, queue, snap, state, stateFile,
                   users, iter, notified, overwritten, weekAtStart>>

\* an operator writes or removes an overlay entry of group G; the loop reads
\* the file when a cycle starts
OverlayEdit ==
    /\ queue = <<>>
    /\ \E d \in DOMAIN OverlayChoices :
          LET cur == Get(overlayFile, GroupG, EmptyMap)
          IN  \/ \E v \in OverlayChoices[d] :
                    /\ Get(cur, d, OvInfo(<<>>)) # v
                    /\ overlayFile' = Put(overlayFile, GroupG, Put(cur, d, v))
              \/ /\ d \in DOMAIN cur
                 /\ overlayFile' =
                       Put(overlayFile, GroupG, [x \in (DOMAIN cur) \ {d} |-> cur[x]])
    /\ UNCHANGED <<now, overlayAll, targets, queue, snap, state, stateFile, users,
                   iter, notified, overwritten, weekAtStart>>

(***************************************************************************)
(* Storage failures.  A file that cannot be used holds [damaged |-> kind]: *)
(* "unreadable" (open raises), "malformed" (json.load raises) or "notdict" *)
(* (the JSON value is not an object).  A write ends "ok", with             *)
(* "open_fails" (the file is left as it was) or with "dump_fails" (the     *)
(* file is left truncated).                                                *)
(***************************************************************************)
DamageKinds == {"unreadable", "malformed", "notdict"}

WriteOutcomes == {"ok", "open_fails", "dump_fails"}

Damaged(kind) == [damaged |-> kind]

\* a file that does not exist
AbsentFile == [absent |-> TRUE]

IsDamaged(content) == "damaged" \in DOMAIN content

\* open(...) and json.load(f): [raised, value]
ReadJson(content) ==
    IF IsDamaged(content) /\ content.damaged \in {"unreadable", "malformed"}
    THEN [raised |-> TRUE, value |-> EmptyMap]
    ELSE [raised |-> FALSE, value |-> content]

\* what open(path, "w") and json.dump(value, f) leave in the file: [raised, content]
WriteJson(old, value, outcome) ==
    IF outcome = "ok" THEN [raised |-> FALSE, content |-> value]
    ELSE IF outcome = "open_fails" THEN [raised |-> TRUE, content |-> old]
    ELSE [raised |-> TRUE, content |-> Damaged("malformed")]

\* schedule_service.py lines 597-606: one file whose window holds the date;
\* [raised, found, value]
LoadFile(f) ==
    LET r == ReadJson(f.data)
    IN  IF r.raised \/ IsDamaged(r.value)
        \* line 605: the exception of open, json.load or data.get is logged
        THEN [raised |-> FALSE, found |-> FALSE, value |-> EmptyMap]
        ELSE [raised |-> FALSE, found |-> TRUE, value |-> r.value.schedule]

\* schedule_service.py lines 588-607: the schedules the scan may return
_load_cached_schedule(files, group_code, target_date) ==
    {LoadFile(f).value : f \in {h \in LoadHits(files, group_code, target_date) :
                                    LoadFile(h).found}}

\* schedule_service.py lines 609-622 with the outcome of the write: [raised, files]
_save_schedule_io(files, group_code, base_date, schedule, outcome) ==
    LET w == week_mon_sat_for_display(base_date)
        stem == _schedule_filename(group_code, w[1], w[2])
        old == {f \in files : f.stem = stem}
    IN  IF outcome = "ok"
        THEN [raised |-> FALSE,
              files |-> _save_schedule(files, group_code, base_date, schedule)]
        ELSE IF outcome = "open_fails"
        \* lines 621-622: the exception is logged
        THEN [raised |-> FALSE, files |-> files]
        ELSE [raised |-> FALSE,
              files |-> (files \ old) \cup {[stem |-> stem, data |-> Damaged("malformed")]}]

\* the observation of a call of a storage operation
Observed(op, g, d, hit, fetched, parsed, raised, ret) ==
    [op |-> op, g |-> g, d |-> d, before |-> cache,
     swept |-> IF op = "get" THEN _cleanup_old_files(cache, d) ELSE {},
     hit |-> hit, fetched |-> fetched, parsed |-> parsed, raised |-> raised,
     ret |-> ret]

\* schedule_service.py lines 624-635 on a directory that may hold damaged
\* files and with a write that may fail
_fetch_schedule_for_group(g, d, outcome) ==
    LET swept == _cleanup_old_files(cache, d)
        found == _load_cached_schedule(swept, g, d)
    IN  /\ IF found # {}
           THEN /\ \E sch \in found :
                      call' = Observed("get", g, d, TRUE, FALSE, EmptyMap, FALSE, sch)
                /\ cache' = swept
           ELSE IF url_map[g] = None
           THEN /\ call' = Observed("get", g, d, FALSE, FALSE, EmptyMap, FALSE, EmptyMap)
                /\ cache' = swept
           ELSE \E in \in FetchOutcomes(SitePage(site[g])) :
                   LET schedule == Parsed[in].value
                       w == IF schedule # EmptyMap
                            THEN _save_schedule_io(swept, g, d, schedule, outcome)
                            ELSE [raised |-> FALSE, files |-> swept]
                   IN  /\ call' = Observed("get", g, d, FALSE, TRUE, schedule,
                                           Parsed[in].raised \/ w.raised, schedule)
                       /\ cache' = w.files
        /\ UNCHANGED <<site, subjects, race, disk>>

\* a file that holds the JSON value v
Json(v) == [json |-> v]

\* schedule_watchdog.py lines 168-179 without the handler of lines 178-179
_load_week_unguarded(weeks, file) ==
    IF file \notin DOMAIN weeks THEN [raised |-> FALSE, value |-> EmptyMap]
    ELSE LET r == ReadJson(weeks[file])
         IN  IF r.raised THEN [raised |-> TRUE, value |-> EmptyMap]
             ELSE IF IsDamaged(r.value) THEN [raised |-> FALSE, value |-> EmptyMap]
             ELSE [raised |-> FALSE, value |-> r.value.json]

\* schedule_watchdog.py lines 168-179: [raised, value]
_load_week(weeks, file) ==
    IF file \notin DOMAIN weeks THEN [raised |-> FALSE, value |-> EmptyMap]
    ELSE LET r == ReadJson(weeks[file])
         IN  IF r.raised THEN [raised |-> FALSE, value |-> EmptyMap]
             ELSE IF IsDamaged(r.value) THEN [raised |-> FALSE, value |-> EmptyMap]
             ELSE [raised |-> FALSE, value |-> r.value.json]

\* schedule_watchdog.py lines 182-189: [raised, weeks]
_save_week(weeks, file, data, outcome) ==
    LET w == WriteJson(Get(weeks, file, AbsentFile), Json(JsonSchedule(data)), outcome)
    IN  [raised |-> FALSE,
         weeks |-> IF outcome = "open_fails" THEN weeks ELSE Put(weeks, file, w.content)]

\* schedule_watchdog.py lines 122-136: [raised, value]
_load_state(content) ==
    IF content = AbsentFile THEN [raised |-> FALSE, value |-> EmptyMap]
    ELSE LET r == ReadJson(content)
         IN  IF r.raised THEN [raised |-> FALSE, value |-> EmptyMap]
             ELSE IF IsDamaged(r.value) THEN [raised |-> FALSE, value |-> EmptyMap]
             ELSE [raised |-> FALSE, value |-> r.value.json]

\* schedule_watchdog.py lines 139-144: [raised, content]
_save_state(content, value, outcome) ==
    [raised |-> FALSE, content |-> WriteJson(content, Json(value), outcome).content]

\* TAIL-BEGIN
NoReparse == [other |-> NotCalled, again |-> NotCalled]

\* no snapshot file and no fingerprint file
NoDisk == [weeks |-> EmptyMap, state |-> AbsentFile]

\* no call is in flight
NoRace == [c \in Callers |-> Idle]

InitParse == parseIn = NoInput /\ parseOut = NotCalled /\ reparse = NoReparse

InitCache ==
    /\ cache = {}
    /\ site = [g \in Groups |-> CHOOSE v \in SiteVersions[g] : TRUE]
    /\ call = NoCall
    /\ subjects = <<>>
    /\ race = NoRace
    /\ disk = NoDisk

\* the source of G_X serves the page RichVersion
InitRichSite ==
    /\ cache = {}
    /\ site = [g \in Groups |-> IF g = GroupGX THEN RichVersion
                                 ELSE CHOOSE v \in SiteVersions[g] : TRUE]
    /\ call = NoCall
    /\ subjects = <<>>
    /\ race = NoRace
    /\ disk = NoDisk

NoLines == [old |-> <<>>, new |-> <<>>]

InitDiff ==
    /\ oldSlots = EmptyMap /\ newSlots = EmptyMap /\ changes = <<>> /\ computed = <<>>
    /\ dayLines = NoLines

InitDog ==
    /\ now = 5
    /\ overlayFile = EmptyMap
    /\ overlayAll = EmptyMap
    /\ targets = <<>>
    /\ queue = <<>>
    /\ snap = EmptyMap
    /\ state = EmptyMap
    /\ stateFile = EmptyMap
    /\ users = UsersTable
    /\ iter = NoIter
    /\ notified = <<>>
    /\ overwritten = <<>>
    /\ weekAtStart = EmptyMap

Init == InitParse /\ InitCache /\ InitDiff /\ InitDog

ParseCall ==
    /\ ~parseOut.called
    /\ parseOut' = [called |-> TRUE] @@ parse_schedule(parseIn)
    /\ UNCHANGED <<parseIn, reparse, cacheVars, diffVars, dogVars>>

NextParse == ParseCall

InitParseSpec ==
    /\ parseIn \in ParseInputs /\ parseOut = NotCalled /\ reparse = NoReparse
    /\ InitCache /\ InitDiff /\ InitDog

SpecParse == InitParseSpec /\ [][NextParse]_vars

InitBlocks ==
    /\ parseIn \in BlockInputs /\ parseOut = NotCalled /\ reparse = NoReparse
    /\ InitCache /\ InitDiff /\ InitDog

SpecBlocks == InitBlocks /\ [][NextParse]_vars

InitShortBlocks ==
    /\ parseIn \in ShortBlockInputs /\ parseOut = NotCalled /\ reparse = NoReparse
    /\ InitCache /\ InitDiff /\ InitDog

SpecShortBlocks == InitShortBlocks /\ [][NextParse]_vars

InitPages ==
    /\ parseIn \in PageInputs /\ parseOut = NotCalled /\ reparse = NoReparse
    /\ InitCache /\ InitDiff /\ InitDog

\* schedule_watchdog.py lines 238-243 on a parsed day for which nothing is
\* stored: the slots of its lessons lines and the change lists
SlotsOfParsed ==
    /\ parseOut.called /\ changes = <<>>
    /\ \E d \in DOMAIN parseOut.value :
          /\ oldSlots' = _parse_slots(_normalize_day_lines([day |-> "", lessons |-> <<>>]))
          /\ newSlots' = _parse_slots(_normalize_day_lines(parseOut.value[d]))
          /\ changes' = _build_changes(oldSlots', newSlots')
    /\ UNCHANGED <<dayLines, computed, parseVars, cacheVars, dogVars>>

NextPages == ParseCall \/ SlotsOfParsed

SpecPages == InitPages /\ [][NextPages]_vars

\* the schedule the most recent call of parse_schedule built
LastParsed ==
    IF reparse.other.called THEN reparse.other.value ELSE parseOut.value

\* a call of parse_schedule on another page, after the first call
ParseOther ==
    /\ parseOut.called /\ ~reparse.other.called /\ ~reparse.again.called
    /\ \E v \in AllVersions :
          reparse' = [reparse EXCEPT !.other = [called |-> TRUE] @@
              parse_schedule_after(LastParsed,
                  [net |-> "ok", status |-> 200, page |-> SitePage(v)])]
    /\ UNCHANGED <<parseIn, parseOut, cacheVars, diffVars, dogVars>>

\* a second call of parse_schedule on the bytes of the first call
ParseAgain ==
    /\ parseOut.called /\ ~reparse.again.called
    /\ reparse' = [reparse EXCEPT !.again = [called |-> TRUE] @@
                      parse_schedule_after(LastParsed, parseIn)]
    /\ UNCHANGED <<parseIn, parseOut, cacheVars, diffVars, dogVars>>

NextReparse == ParseCall \/ ParseOther \/ ParseAgain

SpecReparse == InitParseSpec /\ [][NextReparse]_vars

ServiceCall ==
    /\ \E g \in Groups, d \in Dates : get_schedule_data(g, d)
    /\ UNCHANGED <<subjects, race, disk, parseVars, diffVars, dogVars>>

SourceChange ==
    /\ \E g \in Groups : SiteChange(g)
    /\ UNCHANGED <<parseVars, diffVars, dogVars>>

BuildChanges ==
    /\ changes = <<>>
    /\ changes' = _build_changes(oldSlots, newSlots)
    /\ UNCHANGED <<oldSlots, newSlots, dayLines, computed, parseVars, cacheVars, dogVars>>

NextDiff == BuildChanges

InitDiffSpec ==
    /\ oldSlots \in SlotMaps /\ newSlots \in SlotMaps /\ changes = <<>>
    /\ computed = <<>> /\ dayLines = NoLines
    /\ InitParse /\ InitCache /\ InitDog

SpecDiff == InitDiffSpec /\ [][NextDiff]_vars

\* lines 243, 248-251: one computation of the fingerprint from two dicts whose
\* keys were inserted in some order
ComputeFingerprint ==
    /\ Len(computed) < 2
    /\ \E old_keys \in Orders(DOMAIN oldSlots), new_keys \in Orders(DOMAIN newSlots) :
          computed' = Append(computed,
              [old_keys |-> old_keys, new_keys |-> new_keys,
               fingerprint |-> Fingerprint(_build_changes_ordered(
                                   old_keys, oldSlots, new_keys, newSlots))])
    /\ UNCHANGED <<oldSlots, newSlots, changes, dayLines, parseVars, cacheVars, dogVars>>

InitFingerprint ==
    /\ oldSlots \in LessonMaps /\ newSlots \in LessonMaps /\ changes = <<>>
    /\ computed = <<>> /\ dayLines = NoLines
    /\ InitParse /\ InitCache /\ InitDog

\* the lines a day can hold for pair n, written with the watchdog's own words:
\* no line, a lesson, a lesson of subgroup 1 or of subgroup 2, two subgroups on
\* lines of their own, a lesson whose text holds the separator, no lesson
PairBlocks(n) ==
    {<<>>,
     <<Line(n, WdPara, "", "A")>>,
     <<Line(n, WdPara, "", "B")>>,
     <<Line(n, WdPara, "(1)", "A")>>,
     <<Line(n, WdPara, "(2)", "A")>>,
     <<Line(n, WdPara, "", ""), Line(-1, "", "(1)", "A"), Line(-1, "", "(2)", "B")>>,
     <<Line(n, WdPara, "", "A | B")>>,
     <<Line(n, WdPara, "", "NET")>>}

\* the days of the line specification: pair 1 and pair 2
DayBlocks == {<<b1, b2>> : b1 \in PairBlocks(1), b2 \in {<<>>, <<Line(2, WdPara, "", "B")>>}}

\* lines 239-243 on the lessons lines of an old and a fresh day
DiffLines ==
    /\ changes = <<>>
    /\ oldSlots' = _parse_slots(dayLines.old[1] \o dayLines.old[2])
    /\ newSlots' = _parse_slots(dayLines.new[1] \o dayLines.new[2])
    /\ changes' = _build_changes(oldSlots', newSlots')
    /\ UNCHANGED <<dayLines, computed, parseVars, cacheVars, dogVars>>

InitLines ==
    /\ oldSlots = EmptyMap /\ newSlots = EmptyMap /\ changes = <<>> /\ computed = <<>>
    /\ dayLines \in [old : DayBlocks, new : DayBlocks]
    /\ InitParse /\ InitCache /\ InitDog

SpecLines == InitLines /\ [][DiffLines]_vars

SpecFingerprint == InitFingerprint /\ [][ComputeFingerprint]_vars

NextCache == ServiceCall \/ SourceChange

SpecCache == Init /\ [][NextCache]_vars

\* the schedule a successful fetch of the page "A" parses
GoodSchedule == Parsed[[net |-> "ok", status |-> 200, page |-> SitePage("A")]].value

\* the snapshot file of group G for the week of day 0
WeekFile == <<GroupG, week_bounds_mon_sun(0)[1], week_bounds_mon_sun(0)[2]>>

GoodState == (<<GroupG, 5>> :> Fingerprint(<<<<>>, <<<<1, "A">>>>, <<>>>>))

\* the directory of the Schedule Service: empty, the entry of G for the week of
\* day 0, that entry damaged, or that entry damaged beside a good one of G_X
StorageDirs ==
    LET good(g) == CHOOSE f \in _save_schedule({}, g, 0, GoodSchedule) : TRUE
    IN  {{}, {good(GroupG)}}
        \cup {{[good(GroupG) EXCEPT !.data = Damaged(k)]} : k \in DamageKinds}
        \cup {{[good(GroupG) EXCEPT !.data = Damaged(k)], good(GroupGX)} : k \in DamageKinds}

FileContents(v) == {Json(v)} \cup {Damaged(k) : k \in DamageKinds}

InitStorage ==
    /\ InitParse /\ InitDiff /\ InitDog
    /\ cache \in StorageDirs
    /\ site = [g \in Groups |-> CHOOSE v \in SiteVersions[g] : TRUE]
    /\ call = NoCall /\ subjects = <<>> /\ race = NoRace
    /\ disk \in [weeks : {EmptyMap} \cup {WeekFile :> c : c \in FileContents(JsonSchedule(GoodSchedule))},
                  state : {AbsentFile} \cup FileContents(GoodState)]

\* a reader of the Schedule Service on a directory that may hold damaged files
StorageGet ==
    /\ \E g \in {GroupG, GroupN}, d \in {0, 5}, outcome \in WriteOutcomes :
          _fetch_schedule_for_group(g, d, outcome)
    /\ UNCHANGED <<parseVars, diffVars, dogVars>>

\* schedule_watchdog.py line 238
LoadWeekCall ==
    /\ LET r == _load_week(disk.weeks, WeekFile)
       IN  call' = Observed("load_week", GroupG, 0, FALSE, FALSE, EmptyMap, r.raised,
                            r.value)
    /\ UNCHANGED <<cache, site, subjects, race, disk, parseVars, diffVars, dogVars>>

\* schedule_watchdog.py line 271
SaveWeekCall ==
    /\ \E outcome \in WriteOutcomes :
          LET data == GoodSchedule
              r == _save_week(disk.weeks, WeekFile, data, outcome)
          IN  /\ disk' = [disk EXCEPT !.weeks = r.weeks]
              /\ call' = Observed("save_week", GroupG, 0, FALSE, FALSE, data, r.raised,
                                   EmptyMap)
    /\ UNCHANGED <<cache, site, subjects, race, parseVars, diffVars, dogVars>>

\* schedule_watchdog.py line 206
LoadStateCall ==
    /\ LET r == _load_state(disk.state)
       IN  call' = Observed("load_state", GroupG, 0, FALSE, FALSE, EmptyMap, r.raised,
                            r.value)
    /\ UNCHANGED <<cache, site, subjects, race, disk, parseVars, diffVars, dogVars>>

\* schedule_watchdog.py lines 272-273
SaveStateCall ==
    /\ \E value \in {EmptyMap, GoodState}, outcome \in WriteOutcomes :
          LET r == _save_state(disk.state, value, outcome)
          IN  /\ disk' = [disk EXCEPT !.state = r.content]
              /\ call' = Observed("save_state", GroupG, 0, FALSE, FALSE, value, r.raised,
                                   EmptyMap)
    /\ UNCHANGED <<cache, site, subjects, race, parseVars, diffVars, dogVars>>

NextStorage == StorageGet \/ LoadWeekCall \/ SaveWeekCall \/ LoadStateCall \/ SaveStateCall

SpecStorage == InitStorage /\ [][NextStorage]_vars

SubjectsCall ==
    /\ \E g \in Groups, d \in Dates : get_unique_subjects_for_week(g, d)
    /\ UNCHANGED <<race, disk, parseVars, diffVars, dogVars>>

InitSubjects == InitParse /\ InitRichSite /\ InitDiff /\ InitDog

SpecSubjects == InitSubjects /\ [][SubjectsCall]_vars

\* a reader of the Schedule Service asks for the schedule of the current date
UiRefetch ==
    /\ \E g \in Groups : get_schedule_data(g, now)
    /\ UNCHANGED <<subjects, race, disk, parseVars, diffVars, dogVars>>

NextDog ==
    \/ (CycleStart /\ UNCHANGED <<parseVars, cacheVars, diffVars>>)
    \/ (Iterate /\ UNCHANGED <<parseVars, cacheVars, diffVars>>)
    \/ (Tick /\ UNCHANGED <<parseVars, cacheVars, diffVars>>)
    \/ (OverlayEdit /\ UNCHANGED <<parseVars, cacheVars, diffVars>>)

SpecDog == Init /\ [][NextDog]_vars

\* the watchdog of one day without overlay edits, the readers of the Schedule
\* Service and the sources, interleaved
NextBoth ==
    \/ (CycleStart /\ UNCHANGED <<parseVars, cacheVars, diffVars>>)
    \/ (Iterate /\ UNCHANGED <<parseVars, cacheVars, diffVars>>)
    \/ UiRefetch
    \/ SourceChange

SpecBoth == Init /\ [][NextBoth]_vars

\* the watchdog of one day, the operator of the overlay and the sources
TrackedSourceChange ==
    /\ SiteChange(GroupG)
    /\ UNCHANGED <<parseVars, diffVars, dogVars>>

\* the groups and dates the callers ask about
RaceGroups == {GroupG}

CallBegins ==
    /\ \E c \in Callers, g \in RaceGroups, d \in Dates : BeginCall(c, g, d)
    /\ UNCHANGED <<parseVars, diffVars, dogVars>>

CallEnds ==
    /\ \E c \in Callers : EndCall(c)
    /\ UNCHANGED <<parseVars, diffVars, dogVars>>

NextRace == CallBegins \/ CallEnds \/ TrackedSourceChange

SpecRace == Init /\ [][NextRace]_vars

NextSource ==
    \/ (CycleStart /\ UNCHANGED <<parseVars, cacheVars, diffVars>>)
    \/ (Iterate /\ UNCHANGED <<parseVars, cacheVars, diffVars>>)
    \/ (OverlayEdit /\ UNCHANGED <<parseVars, cacheVars, diffVars>>)
    \/ TrackedSourceChange

SpecSource == Init /\ [][NextSource]_vars

\* the watchdog of one day and the operator of the overlay
NextOverlay ==
    \/ (CycleStart /\ UNCHANGED <<parseVars, cacheVars, diffVars>>)
    \/ (Iterate /\ UNCHANGED <<parseVars, cacheVars, diffVars>>)
    \/ (OverlayEdit /\ UNCHANGED <<parseVars, cacheVars, diffVars>>)

SpecOverlay == Init /\ [][NextOverlay]_vars

\* the loop starts with a users table in which subscriber 1 has been marked
\* blocked by an earlier run
InitDogLive ==
    /\ now = 5
    /\ overlayFile = EmptyMap
    /\ overlayAll = EmptyMap
    /\ targets = <<>>
    /\ queue = <<>>
    /\ snap = EmptyMap
    /\ state = EmptyMap
    /\ stateFile = EmptyMap
    /\ users = [UsersTable EXCEPT ![1].blocked = TRUE]
    /\ iter = NoIter
    /\ notified = <<>>
    /\ overwritten = <<>>
    /\ weekAtStart = EmptyMap

\* a step of the loop body: an iteration ends and leaves the rest of the
\* cycle, or nothing, to be processed; within NextDog it is a step of Iterate
IterateStep == queue # <<>> /\ queue' \in {Tail(queue), <<>>}

\* the event loop runs the watchdog task: the sleep of line 276 ends and every
\* await of an iteration returns or raises
InitLive == InitParse /\ InitCache /\ InitDiff /\ InitDogLive

SpecDogLive ==
    /\ InitLive
    /\ [][NextDog]_vars
    /\ WF_vars(CycleStart /\ UNCHANGED <<parseVars, cacheVars, diffVars>>)
    /\ WF_queue(IterateStep)

\* CLAIMS-BEGIN
(***************************************************************************)
(* Parser claims (SpecParse)                                               *)
(***************************************************************************)
FetchFailed(in) == in.net # "ok" \/ in.status # 200

\* the failures of a parse: the fetch failed, the page has no table, or the
\* row scan raised
ParseFailure(in) == FetchFailed(in) \/ ~in.page.table \/ ParseBody(in).raised

\* C1: parse_schedule never raises to its caller; it returns a map, and the
\* map is empty whenever the fetch failed (network error, timeout, status
\* other than 200), the page has no table or a malformed row made the scan
\* raise.
C1_ParseNeverRaises ==
    parseOut.called =>
        /\ ~parseOut.raised
        /\ \A d \in DOMAIN parseOut.value : d \in Nat
        /\ ParseFailure(parseIn) => parseOut.value = EmptyMap

\* a page whose first block was entered before a malformed row raised
C1_Witness ==
    /\ parseOut.called
    /\ ~FetchFailed(parseIn)
    /\ ParseBody(parseIn).raised
    /\ ParseBody(parseIn).schedule # EmptyMap
    /\ parseOut.value = EmptyMap

(***************************************************************************)
(* Weekly cache claims (SpecCache)                                         *)
(***************************************************************************)
\* the entries of group g whose stored window contains d
EntriesOf(files, g, d) ==
    {f \in files : f.data.group = g /\ f.data.monday <= d /\ d <= f.data.saturday}

\* C2: for a group G that has a source URL: if after the sweep for D the cache
\* holds an entry of G whose stored window contains D, get_schedule_data(G, D)
\* returns that entry's schedule with no parser fetch and no cache write; if
\* there is no such entry it performs a parser fetch.
C2_HitOrFetch ==
    (call.op = "get" /\ url_map[call.g] # None) =>
        LET E == EntriesOf(call.swept, call.g, call.d)
        IN  /\ E # {} => /\ \E f \in E : call.ret = f.data.schedule
                         /\ ~call.fetched
                         /\ cache = call.swept
            /\ E = {} => call.fetched

\* C3: on a cache miss the call returns exactly what the parser produced and
\* does not raise; a non-empty result is stored under the week window computed
\* from D, an empty result leaves the cache as the sweep left it, so that the
\* same call misses again.
C3_MissReturnsParsed ==
    (call.op = "get" /\ ~call.hit) =>
        /\ ~call.raised
        /\ call.fetched => call.ret = call.parsed
        /\ call.ret # EmptyMap =>
              LET w == week_mon_sat_for_display(call.d)
                  stem == _schedule_filename(call.g, w[1], w[2])
              IN  cache = {f \in call.swept : f.stem # stem}
                          \cup {[stem |-> stem,
                                 data |-> [group |-> call.g, monday |-> w[1],
                                           saturday |-> w[2],
                                           schedule |-> JsonSchedule(call.ret)]]}
        /\ call.ret = EmptyMap =>
              /\ cache = call.swept
              /\ LoadHits(cache, call.g, call.d) = {}

\* a miss on a Saturday whose fetch succeeded
C3_Witness ==
    /\ call.op = "get" /\ call.fetched /\ call.ret # EmptyMap
    /\ weekday(call.d) = 5
    /\ cache # call.swept

MondayOf(d) == d - weekday(d)

\* C4: for every current date the sweep deletes an entry only if the end of its
\* window precedes the Monday of the current date's week; an entry whose
\* window contains the current date or lies after it is never deleted.
C4_SweepOnlyElapsed ==
    call.op = "get" =>
        /\ \A f \in call.before \ call.swept : f.data.saturday < MondayOf(call.d)
        /\ \A f \in call.before : f.data.saturday >= call.d => f \in call.swept

\* C5: week_mon_sat_for_display(d) is (M, M + 5) with M a Monday; M <= d <= M + 5
\* for Monday to Friday, and M the first Monday after d for a Saturday or a
\* Sunday; a save keys its entry by exactly this window.
WindowOf(d, w) ==
    /\ weekday(w[1]) = 0
    /\ w[2] = w[1] + 5
    /\ weekday(d) <= 4 => (w[1] <= d /\ d <= w[2])
    /\ weekday(d) >= 5 => (w[1] > d /\ w[1] <= d + 2)

C5_DisplayWindow ==
    /\ \A d \in Dates : WindowOf(d, week_mon_sat_for_display(d))
    /\ (call.op = "get" /\ call.fetched /\ call.ret # EmptyMap) =>
          \E f \in cache :
              /\ f.data.group = call.g
              /\ f.data.schedule = JsonSchedule(call.ret)
              /\ WindowOf(call.d, <<f.data.monday, f.data.saturday>>)
              /\ ParseStem(f.stem) =
                    [ok |-> TRUE, start |-> f.data.monday, end |-> f.data.saturday]
              /\ GlobMatches(call.g, f.stem)

\* a save anchored on a Sunday
C5_Witness ==
    /\ call.op = "get" /\ call.fetched /\ call.ret # EmptyMap
    /\ weekday(call.d) = 6
    /\ \E f \in cache : f.data.group = call.g /\ f.data.monday = call.d + 1

\* C6: the cache never holds two entries for one (group, window); after a save
\* the entry of that key holds exactly the saved schedule (as JSON), nothing of
\* what was stored under the key before.
C6_OneEntryOverwritten ==
    /\ \A f1, f2 \in cache :
          (f1.stem = f2.stem
           \/ (f1.data.group = f2.data.group /\ f1.data.monday = f2.data.monday
               /\ f1.data.saturday = f2.data.saturday)) => f1 = f2
    /\ (call.op = "get" /\ call.fetched /\ call.ret # EmptyMap) =>
          LET w == week_mon_sat_for_display(call.d)
          IN  \A f \in cache :
                  (f.data.group = call.g /\ f.data.monday = w[1]) =>
                      f.data.schedule = JsonSchedule(call.ret)

\* a save over an entry that held a schedule with another set of dates
C6_Witness ==
    /\ call.op = "get" /\ call.fetched /\ call.ret # EmptyMap
    /\ \E f \in call.swept :
          /\ f.stem = _schedule_filename(call.g, week_mon_sat_for_display(call.d)[1],
                                         week_mon_sat_for_display(call.d)[2])
          /\ DOMAIN f.data.schedule # DOMAIN call.ret

(***************************************************************************)
(* Change-list claims (SpecDiff)                                           *)
(***************************************************************************)
OldText(k) == _norm_join(Get(oldSlots, k, <<>>))

NewText(k) == _norm_join(Get(newSlots, k, <<>>))

InList(list, e) == \E i \in 1..Len(list) : list[i] = e

CountKey(list, k) == Cardinality({i \in 1..Len(list) : list[i][1] = k})

\* C7: _build_changes puts every pair number of either slot map into at most
\* one list: removed with the old text iff old is non-empty and new is empty,
\* added with the new text iff old is empty and new is non-empty, changed with
\* both texts iff both are non-empty and differ; a pair empty in both or equal
\* in both is in no list, and no list holds anything else.
C7_BuildChanges ==
    changes # <<>> =>
        /\ \A k \in 1..(MaxKey + 1) :
              /\ CountKey(changes[1], k) + CountKey(changes[2], k)
                    + CountKey(changes[3], k) <= 1
              /\ CountKey(changes[1], k) = 1 <=> (OldText(k) # "" /\ NewText(k) = "")
              /\ CountKey(changes[2], k) = 1 <=> (OldText(k) = "" /\ NewText(k) # "")
              /\ CountKey(changes[3], k) = 1 <=>
                    (OldText(k) # "" /\ NewText(k) # "" /\ OldText(k) # NewText(k))
              /\ CountKey(changes[1], k) = 1 => InList(changes[1], <<k, OldText(k)>>)
              /\ CountKey(changes[2], k) = 1 => InList(changes[2], <<k, NewText(k)>>)
              /\ CountKey(changes[3], k) = 1 =>
                    InList(changes[3], <<k, OldText(k), NewText(k)>>)
        /\ \A j \in 1..3 : \A i \in 1..Len(changes[j]) :
              changes[j][i][1] \in (DOMAIN oldSlots) \cup (DOMAIN newSlots)
        /\ oldSlots = newSlots => changes = <<<<>>, <<>>, <<>>>>
        /\ (oldSlots = (1 :> <<"A">>) /\ newSlots = (1 :> <<"B">>)) =>
              changes = <<<<>>, <<>>, <<<<1, "A", "B">>>>>>
        /\ (oldSlots = EmptyMap /\ newSlots = (1 :> <<"A">>)) =>
              changes = <<<<>>, <<<<1, "A">>>>, <<>>>>

\* old {1: A, 2: B}, new {1: B, 2: [""]}: pair 1 changed, pair 2 removed
C7_Witness ==
    /\ oldSlots = (1 :> <<"A">> @@ 2 :> <<"B">>)
    /\ newSlots = (1 :> <<"B">> @@ 2 :> <<"">>)
    /\ changes = <<<<<<2, "B">>>>, <<>>, <<<<1, "A", "B">>>>>>

\* the pairs of a slot map that hold at least one lesson
PopulatedPairs(slots) == {k \in DOMAIN slots : _norm_join(slots[k]) # ""}

\* the iteration sent nothing and left the snapshots and the fingerprints alone
NothingDone ==
    /\ iter'.sentTo = {}
    /\ snap' = snap
    /\ state' = state
    /\ stateFile' = stateFile

\* C8: when the change set a watchdog iteration computes for (group, date) is
\* empty, the iteration sends no message and leaves the snapshot and the
\* fingerprint map (in memory and on file) unchanged.
C8_EmptyChangeSkips ==
    [][(queue # <<>> /\ iter'.kind # "nodate" /\ iter'.ch = <<<<>>, <<>>, <<>>>>)
          => NothingDone]_vars

\* an iteration found a day with lessons equal to the ones of the snapshot
C8_Witness ==
    /\ iter.kind = "nochange"
    /\ PopulatedPairs(iter.new_slots) # {}
    /\ iter.old_slots = iter.new_slots

\* C9: when the snapshot day of (group, date) has at least one populated pair
\* and the fresh day has none, the iteration sends no message and leaves the
\* snapshot and the fingerprint map unchanged.
C9_TotalRemovalSuppressed ==
    [][(queue # <<>> /\ iter'.kind # "nodate"
          /\ PopulatedPairs(iter'.old_slots) # {}
          /\ PopulatedPairs(iter'.new_slots) = {})
          => (NothingDone /\ users' = users)]_vars

\* an iteration met a snapshot day with lessons and a fresh day without any
C9_Witness ==
    /\ iter.kind = "falsecancel"
    /\ PopulatedPairs(iter.old_slots) # {}
    /\ DOMAIN iter.new_slots # {}

\* C10: once a notification for (group, date) went out, an iteration of a
\* later cycle that finds the same day content as then, with no other content
\* seen in between, sends no message for (group, date).
C10_NoRenotify == iter.repeat => iter.sentTo = {}

\* C11: for each (group, date) a given diff (the same removed, added and
\* changed lists) is notified at most once over a run: a dispatch that ran to
\* its end and sent to somebody never carries a fingerprint that an earlier
\* dispatch for the same (group, date) has already stored.
C11_DiffNotifiedOnce == ~(iter.kind = "notified" /\ iter.again /\ iter.sentTo # {})

\* C12: an exception raised inside one (group, date) iteration is caught within
\* that iteration: the dates and groups that remain in the cycle are still
\* processed, that is, the iterations left after it are the ones that were
\* left before it, less the one that raised.
C12_ExceptionContained ==
    [][(queue # <<>> /\ iter'.kind = "aborted") => queue' = Tail(queue)]_vars

\* C13: when the send to one recipient fails, that recipient is marked blocked,
\* the other recipients of the notification are still sent to, the snapshot
\* and the fingerprint are persisted, and the cycle goes on with the next date
\* and group.
C13_SendFailureHandled ==
    [][(queue # <<>> /\ iter'.failed # {}) =>
          /\ \A u \in iter'.failed : users'[u].blocked
          /\ iter'.sentTo = Attempted(get_users_for_schedule_notifications(iter'.g))
          /\ <<iter'.g, iter'.d>> \in DOMAIN state'
          /\ state'[<<iter'.g, iter'.d>>] = Fingerprint(iter'.ch)
          /\ stateFile' = state'
          /\ queue' = Tail(queue)]_vars

\* the users a notification of group g may go to, as the users table stands
EligibleFor(g) ==
    {u \in UserIds : /\ users[u].group = g
                     /\ ~users[u].blocked
                     /\ users[u].notify
                     /\ ~users[u].banned}

\* C14: every message a watchdog iteration sends for group G goes to a user
\* whose stored group is G, who is not marked blocked, has the notifications
\* enabled and is not banned when the recipients are evaluated; nobody else
\* is sent the message.
C14_OnlyEligibleRecipients ==
    [][queue # <<>> => iter'.sentTo \subseteq EligibleFor(iter'.g)]_vars

\* a notification went out while a subscriber of the group was marked blocked,
\* and reached the only subscriber left
C14_Witness ==
    /\ iter.kind = "notified"
    /\ iter.sentTo = {2}
    /\ iter.failed = {}
    /\ users[1].blocked

\* the slots of date d of group g in the week files ws
SnapshotSlots(ws, g, d) ==
    LET w == week_bounds_mon_sun(d)
        week == Get(ws, <<g, w[1], w[2]>>, EmptyMap)
    IN  _parse_slots(Get(week, d, [day |-> "", lessons |-> <<>>]).lessons)

\* C15: in any cycle, for each of the two target dates of a tracked group on
\* its own: if the fresh day differs from the day last observed for the date
\* (the one stored when the cycle started), the difference is not a total
\* removal and its fingerprint is not the stored one, the iteration of that
\* date dispatches a notification, also when both dates changed in the same
\* cycle and lie in the same week.
C15_EachTargetNotified ==
    [][(queue # <<>> /\ iter'.kind # "nodate") =>
          LET old0 == SnapshotSlots(weekAtStart, iter'.g, iter'.d)
              ch0 == _build_changes(old0, iter'.new_slots)
              key == <<iter'.g, iter'.d>>
          IN  (/\ ch0 # <<<<>>, <<>>, <<>>>>
               /\ ~_should_skip_false_cancel(old0, iter'.new_slots)
               /\ ~(key \in DOMAIN state /\ state[key] = Fingerprint(ch0)))
              => iter'.kind \in {"notified", "aborted"}]_vars

\* C16: the watchdog loop never stops on its own: a cycle that is running comes
\* to its end, completed or aborted by an exception, and after the end of a
\* cycle another cycle starts, so infinitely many cycles run.
C16_LoopForever ==
    /\ (queue # <<>>) ~> (queue = <<>>)
    /\ (queue = <<>>) ~> (queue # <<>>)

\* a cycle started after one that an exception had aborted once a message was
\* out: the message is recorded, the week files are not
C16_Witness ==
    /\ queue # <<>>
    /\ iter = NoIter
    /\ notified # <<>>
    /\ snap = EmptyMap

\* the day the source of group g lists for date d: what a successful fetch
\* parses, or a day without lessons when the page does not list the date
SourceDay(g, d) ==
    LET parsed == Parsed[[net |-> "ok", status |-> 200, page |-> SitePage(site[g])]].value
    IN  Get(parsed, d, NewInfo(""))

\* the day stored for date d of group g in the week files
StoredDay(g, d) ==
    LET w == week_bounds_mon_sun(d)
    IN  Get(Get(snap, <<g, w[1], w[2]>>, EmptyMap), d, NewInfo(""))

\* C17: the readers of the Schedule Service never change the watchdog's week
\* files or fingerprints, the watchdog never changes the weekly cache, and an
\* iteration that fetched the day of its date from the source, with lessons
\* that are not the stored ones, dispatches a notification, whatever the
\* readers did in between.
C17_IndependentOfCache ==
    [][/\ (call' # call) => (snap' = snap /\ state' = state /\ stateFile' = stateFile)
       /\ (queue' # queue) => cache' = cache
       /\ (/\ queue # <<>> /\ queue' # queue
           /\ iter'.kind # "nodate"
           /\ iter'.d \notin DOMAIN Get(overlayAll, iter'.g, EmptyMap)
           /\ SourceDay(iter'.g, iter'.d).pairs # EmptyMap
           /\ SourceDay(iter'.g, iter'.d).pairs # StoredDay(iter'.g, iter'.d).pairs)
          => iter'.kind \in {"notified", "aborted"}]_vars

\* the two frame conditions of C17 alone
CacheAndWatchdogApart ==
    [][/\ (call' # call) => (snap' = snap /\ state' = state /\ stateFile' = stateFile)
       /\ (queue' # queue) => cache' = cache]_vars

\* the day stored for date d of group g in the week files ws
StoredDayIn(ws, g, d) ==
    LET w == week_bounds_mon_sun(d)
    IN  Get(Get(ws, <<g, w[1], w[2]>>, EmptyMap), d, NewInfo(""))

\* the numbers of the pairs a day of the source's form holds
PairNumbers(info) ==
    IF "pairs" \in DOMAIN info THEN {k[2] : k \in DOMAIN info.pairs} ELSE {}

\* the lesson text of pair n of such a day
PairText(info, n) ==
    _norm_join(info.pairs[CHOOSE k \in DOMAIN info.pairs : k[2] = n])

\* C18: when the stored day of a tracked (group, date) holds one lesson, in
\* pair p, and the day fetched from the source holds none in pair p and one in
\* another pair q, the iteration dispatches one notification whose body is the
\* cancellation line of pair p followed by the addition line of pair q, and
\* stores the fingerprint of that difference and the fetched day, so that an
\* identical re-check sends nothing.
C18_CancelAndAddNotified ==
    [][\A p, q \in 1..BlockRows :
          (/\ queue # <<>> /\ queue' # queue
           /\ iter'.kind # "nodate"
           /\ iter'.d \notin DOMAIN Get(overlayAll, iter'.g, EmptyMap)
           /\ p # q
           /\ PairNumbers(StoredDay(iter'.g, iter'.d)) = {p}
           /\ PairNumbers(SourceDay(iter'.g, iter'.d)) = {q})
          => LET key == <<iter'.g, iter'.d>>
                 X == PairText(StoredDay(iter'.g, iter'.d), p)
                 Y == PairText(SourceDay(iter'.g, iter'.d), q)
             IN  /\ iter'.kind = "notified"
                 /\ iter'.msg.body = <<<<"cancelled", p, X>>, <<"added", q, Y>>>>
                 /\ key \in DOMAIN state'
                 /\ state'[key] = Fingerprint(<<<<<<p, X>>>>, <<<<q, Y>>>>, <<>>>>)
                 /\ PairNumbers(StoredDayIn(snap', iter'.g, iter'.d)) = {q}]_vars

\* C19: two computations of the fingerprint from equal old slot maps and equal
\* new slot maps give equal fingerprints, whatever the orders in which the
\* pair numbers were inserted into the maps.
C19_FingerprintOrderFree ==
    \A i, j \in DOMAIN computed : computed[i].fingerprint = computed[j].fingerprint

\* two computations with different insertion orders of two populated pairs,
\* one of them not the sorted order, and a change in both pairs
C19_Witness ==
    /\ Len(computed) = 2
    /\ computed[1].old_keys = <<2, 1>>
    /\ computed[2].old_keys = <<1, 2>>
    /\ Len(computed[1].fingerprint.rem) + Len(computed[1].fingerprint.chg) = 2

RowGroups == FillGroups(parseIn.page.rows[1].cells, 1, 0, [j \in 1..5 |-> None])

\* the day the parser returned for the date of a one-row page
RowDay == Get(parseOut.value, 0, NewInfo(""))

OneRowParsed == parseOut.called /\ Len(parseIn.page.rows) = 1

\* C21: for a pair row one of whose logical columns 2 to 4 holds a lesson, the
\* pair is recorded as one merged slot holding the content of such a column,
\* and nothing of columns 0 and 1 is recorded.
C21_CommonColumnsMerge ==
    (OneRowParsed /\ \E j \in 3..5 : Truthy(RowGroups[j])) =>
        /\ <<"int", 1>> \in DOMAIN RowDay.merge
        /\ RowDay.merge[<<"int", 1>>] \in {RowGroups[j] : j \in 3..5}
        /\ RowDay.pairs = (<<"int", 1>> :> <<RowDay.merge[<<"int", 1>>]>>)
        /\ RowDay.pairs_cols = EmptyMap

\* C22: for a pair row whose logical columns 2 to 4 hold no lesson, the pair
\* is recorded nowhere when neither subgroup column holds a lesson, as the two
\* columns when both hold lessons that differ, and as one merged slot when both
\* hold the same text; no recorded pair of columns has two equal sides.
C22_SubgroupColumns ==
    /\ (OneRowParsed /\ \A j \in 3..5 : ~Truthy(RowGroups[j])) =>
          LET first == RowGroups[1]
              second == RowGroups[2]
              k == <<"int", 1>>
          IN  /\ (~Truthy(first) /\ ~Truthy(second)) =>
                    (RowDay.pairs = EmptyMap /\ RowDay.merge = EmptyMap
                     /\ RowDay.pairs_cols = EmptyMap)
              /\ (Truthy(first) /\ Truthy(second) /\ first # second) =>
                    (RowDay.pairs_cols = (k :> <<first, second>>)
                     /\ RowDay.pairs = (k :> <<first, second>>)
                     /\ RowDay.merge = EmptyMap)
              /\ (Truthy(first) /\ first = second) =>
                    (RowDay.merge = (k :> first) /\ RowDay.pairs = (k :> <<first>>)
                     /\ RowDay.pairs_cols = EmptyMap)
    /\ \A d \in DOMAIN parseOut.value : \A k \in DOMAIN parseOut.value[d].pairs_cols :
          parseOut.value[d].pairs_cols[k][1] # parseOut.value[d].pairs_cols[k][2]

\* a row whose two subgroup columns hold the same lesson, recorded as merged
C22_Witness ==
    /\ OneRowParsed
    /\ \A j \in 3..5 : RowGroups[j] = None
    /\ Truthy(RowGroups[1]) /\ RowGroups[1] = RowGroups[2]
    /\ RowDay.merge # EmptyMap

\* the lesson texts of a schedule: the items of every pair and every merged
\* lesson of every day
LessonTexts(schedule) ==
    UNION {UNION {{schedule[d].pairs[k][i] : i \in DOMAIN schedule[d].pairs[k]} :
                    k \in DOMAIN schedule[d].pairs}
           \cup {schedule[d].merge[k] : k \in DOMAIN schedule[d].merge} :
           d \in DOMAIN schedule}

\* the place of a token in SubjectOrder
Rank(t) == CHOOSE i \in DOMAIN SubjectOrder : SubjectOrder[i] = t

\* C23: the list get_unique_subjects_for_week returns holds no token twice and
\* no empty token, is sorted, holds the subject token of every lesson of the
\* schedule the call obtained and no other token, and is empty for an empty
\* schedule.
C23_UniqueSubjects ==
    subjects # <<>> =>
        LET r == subjects[1]
        IN  /\ \A i, j \in DOMAIN r : i < j => Rank(r[i]) < Rank(r[j])
            /\ \A i \in DOMAIN r : r[i] # ""
            /\ \A l \in LessonTexts(call.ret) :
                  l # "" => \E i \in DOMAIN r : r[i] = SubjectToken(l)
            /\ \A i \in DOMAIN r : \E l \in LessonTexts(call.ret) : r[i] = SubjectToken(l)
            /\ call.ret = EmptyMap => r = <<>>

\* the week holds lessons of two subgroups, a lesson of the whole group and a
\* room without subject: three tokens returned, in order
C23_Witness ==
    /\ subjects = <<<<"A", "B", "R1">>>>
    /\ \E d \in DOMAIN call.ret : call.ret[d].pairs_cols # EmptyMap

\* C24: an iteration that dispatches a notification for (G, D) changes the
\* stored day of date D only: for every other date of group G, the stored day
\* (or its absence) is the same before and after the iteration.
C24_SnapshotPerDate ==
    [][(queue # <<>> /\ iter'.kind = "notified") =>
          \A d \in 0..(MaxNow + 7) :
              d # iter'.d =>
                  LET w == week_bounds_mon_sun(d)
                      before == Get(snap, <<iter'.g, w[1], w[2]>>, EmptyMap)
                      after == Get(snap', <<iter'.g, w[1], w[2]>>, EmptyMap)
                  IN  /\ (d \in DOMAIN before) = (d \in DOMAIN after)
                      /\ d \in DOMAIN before => before[d] = after[d]]_vars

\* C25: an iteration whose fetch failed and whose target date has no overlay
\* entry sends no message, builds none, reports no cancellation and leaves the
\* week files and the fingerprints as they were.
C25_FailedFetchSilent ==
    [][(/\ queue # <<>> /\ queue' # queue
        /\ ~iter'.fetched
        /\ iter'.d \notin DOMAIN Get(overlayAll, iter'.g, EmptyMap))
       => /\ iter'.kind = "nodate"
          /\ iter'.sentTo = {} /\ iter'.msg = <<>> /\ iter'.ch[1] = <<>>
          /\ snap' = snap /\ state' = state /\ stateFile' = stateFile]_vars

\* a failed fetch for a date whose stored day holds lessons and whose
\* fingerprint is stored, the overlay entry of the date having been removed
C25_Witness ==
    /\ queue # <<>>
    /\ iter.kind = "nodate" /\ ~iter.fetched
    /\ iter.d \notin DOMAIN Get(overlayAll, iter.g, EmptyMap)
    /\ PopulatedPairs(SnapshotSlots(snap, iter.g, iter.d)) # {}
    /\ <<iter.g, iter.d>> \in DOMAIN state

\* the pairs of the fresh day of (g, d) that hold a lesson: of the overlay
\* entry when the overlay read at the start of the cycle has one, otherwise
\* of the day the source lists
FreshPopulated(g, d) ==
    IF d \in DOMAIN Get(overlayAll, g, EmptyMap)
    THEN PopulatedPairs(_parse_slots(overlayAll[g][d].lessons))
    ELSE PairNumbers(SourceDay(g, d))

\* C26: an iteration that obtained the fresh day of a (group, date) for which
\* the week files hold no day reports every pair of the fresh day that holds a
\* lesson as added, and nothing else, and, when there is such a pair and the
\* fingerprint is not the stored one, dispatches a notification.
C26_FirstObservation ==
    [][(/\ queue # <<>> /\ queue' # queue
        /\ iter'.kind # "nodate"
        /\ (iter'.fetched \/ iter'.d \in DOMAIN Get(overlayAll, iter'.g, EmptyMap))
        /\ LET w == week_bounds_mon_sun(iter'.d)
           IN  iter'.d \notin DOMAIN Get(snap, <<iter'.g, w[1], w[2]>>, EmptyMap))
       => LET ch == iter'.ch
              key == <<iter'.g, iter'.d>>
          IN  /\ ch[1] = <<>> /\ ch[3] = <<>>
              /\ {ch[2][i][1] : i \in DOMAIN ch[2]} = FreshPopulated(iter'.g, iter'.d)
              /\ (/\ FreshPopulated(iter'.g, iter'.d) # {}
                  /\ ~(key \in DOMAIN state /\ state[key] = Fingerprint(ch)))
                 => iter'.kind = "notified"]_vars

\* what a successful fetch of each version of a page parses
ParsedOk ==
    [v \in AllVersions |->
        Parsed[[net |-> "ok", status |-> 200, page |-> SitePage(v)]].value]

\* what a successful fetch of the source of group g parses
SourceSchedule(g) == ParsedOk[site[g]]

\* the slots of the entries an operator may write
OverlaySlots ==
    [v \in UNION {OverlayChoices[x] : x \in DOMAIN OverlayChoices} |->
        _parse_slots(v.lessons)]

SlotLessons(info, n) ==
    LET k == <<"int", n>>
    IN  IF k \in DOMAIN info.merge THEN <<info.merge[k]>>
        ELSE IF k \in DOMAIN info.pairs_cols
        THEN SelectSeq(info.pairs_cols[k], LAMBDA x : x # "")
        ELSE Get(info.pairs, k, <<>>)

\* C28: the slots the watchdog extracts from the lessons lines of a parsed day
\* hold, for every pair number 1 to 8, the lessons of the pair's slot: none,
\* one, or two in order.
C28_LinesAndSlotsAgree ==
    (OneRowParsed /\ changes # <<>>) =>
        \A n \in 1..NumPairs : Get(newSlots, n, <<>>) = SlotLessons(RowDay, n)

\* the texts of a block of lines
BlockTexts(block) == [i \in DOMAIN block |-> LineText(block[i])]

\* the pair numbers the change lists name
ChangedPairs(ch) ==
    {ch[1][i][1] : i \in DOMAIN ch[1]} \cup {ch[2][i][1] : i \in DOMAIN ch[2]}
    \cup {ch[3][i][1] : i \in DOMAIN ch[3]}

\* C29: whenever the lines of a pair differ in their text between the old day
\* and the fresh day, the change lists hold an entry for that pair.
\* (checked for the pairs that hold a lesson on both days)
HoldsLesson(block) == block # <<>> /\ block[1].s # "NET"

C29_VerbatimCompare ==
    (dayLines # NoLines /\ changes # <<>>) =>
        \A n \in 1..2 :
            (/\ HoldsLesson(dayLines.old[n]) /\ HoldsLesson(dayLines.new[n])
             /\ BlockTexts(dayLines.old[n]) # BlockTexts(dayLines.new[n]))
                => n \in ChangedPairs(changes)

\* the blocks the parsed page was built from
RECURSIVE SplitBlocks(_, _)
SplitBlocks(rows, i) ==
    IF i > Len(rows) THEN <<>>
    ELSE LET starts == {j \in (i + 1)..Len(rows) : rows[j].date # NoDateCell}
             e == IF starts = {} THEN Len(rows) + 1
                  ELSE CHOOSE j \in starts : \A k \in starts : j <= k
         IN  <<[date |-> rows[i].date, lessons |-> <<rows[i].cells, rows[i + 1].cells>>,
                len |-> e - i]>> \o SplitBlocks(rows, e)

PageBlocks == SplitBlocks(parseIn.page.rows, 1)

ValidBlocks(bs) == SelectSeq(bs, LAMBDA b : b.date.d >= 0)

\* the pairs a parsed day holds, whatever their kind
DayPairs(info) == [pairs |-> info.pairs, pairs_cols |-> info.pairs_cols, merge |-> info.merge]

\* the day one block gives when it is parsed on its own
AloneDay(b) ==
    DayPairs(parse_schedule([parseIn EXCEPT !.page = BlockPage(<<b>>)]).value[b.date.d])

\* C30: a date block whose date text does not match the pattern is skipped:
\* the result is the one of the page without these blocks, so none of their
\* rows adds a pair to any date; the dates of the result are the dates of the
\* valid blocks, and a valid block that is the only one of its date, wherever
\* it stands, gives the day it gives when parsed alone.
C30_InvalidDateBlockSkipped ==
    (parseIn \in BlockInputs /\ parseOut.called) =>
        LET bs == PageBlocks
            valid == ValidBlocks(bs)
        IN  /\ ~parseOut.raised
            /\ DOMAIN parseOut.value = {valid[k].date.d : k \in DOMAIN valid}
            /\ parseOut.value
                 = parse_schedule([parseIn EXCEPT !.page = BlockPage(valid)]).value
            /\ \A k \in DOMAIN bs :
                 (/\ bs[k].date.d >= 0
                  /\ \A j \in DOMAIN bs : j # k => bs[j].date.d # bs[k].date.d)
                     => DayPairs(parseOut.value[bs[k].date.d]) = AloneDay(bs[k])

\* a valid block, a block with an unreadable date holding lessons, and a valid
\* block of another date have been parsed
C30_Witness ==
    /\ parseIn \in BlockInputs /\ parseOut.called
    /\ Len(PageBlocks) = 3
    /\ PageBlocks[1].date.d = 0 /\ PageBlocks[2].date.d = -1 /\ PageBlocks[3].date.d = 1
    /\ PageBlocks[2].lessons[1] = <<CellA>> /\ PageBlocks[2].len = 2
    /\ PageBlocks[1].lessons[1] = <<CellNone, CellB>>
    /\ DOMAIN parseOut.value = {0, 1}

\* the files of the last call's directory that its sweep deletes and that the
\* scan for its group and date would have returned
SweptHits == LoadHits(call.before \ _cleanup_old_files(call.before, call.d), call.g, call.d)

\* C31: in every call of a reader of the Schedule Service the sweep for the
\* requested date is made before the cache is scanned: the files the scan sees
\* are the ones the sweep left, and a schedule returned from the cache is the
\* one of a file the sweep left, never of a file the sweep deletes.
C31_SweepBeforeScan ==
    call.op = "get" =>
        /\ call.swept = _cleanup_old_files(call.before, call.d)
        /\ call.hit <=> LoadHits(call.swept, call.g, call.d) # {}
        /\ call.hit => \E f \in LoadHits(call.swept, call.g, call.d) :
                          call.ret = f.data.schedule
        /\ (SweptHits # {} /\ LoadHits(call.swept, call.g, call.d) = {}) => ~call.hit

\* a call whose sweep deleted the one entry the scan would have returned
C31_Witness ==
    /\ call.op = "get" /\ SweptHits # {} /\ ~call.hit
    /\ \A f \in SweptHits : f \notin cache

\* both callers asked for the same group and week, both missed the cache and
\* fetched, and both calls have returned
BothFetched ==
    /\ \A c \in Callers : race[c].stage = "done" /\ race[c].miss /\ race[c].fetched
    /\ race[1].g = race[2].g
    /\ week_mon_sat_for_display(race[1].d) = week_mon_sat_for_display(race[2].d)

\* the entries the cache holds under the key of the callers' group and week
RaceEntries ==
    LET w == week_mon_sat_for_display(race[1].d)
    IN  {f \in cache : f.stem = _schedule_filename(race[1].g, w[1], w[2])}

\* the callers whose fetch returned a non-empty schedule
Stored == {c \in Callers : race[c].got # EmptyMap}

\* C32 as stated: once two calls for the same group and week that both missed
\* have completed, the cache holds exactly one entry for that group and week,
\* equal to the result of one of the two fetches, and each caller received the
\* result of its own fetch.
C32_RaceOneEntry ==
    BothFetched =>
        /\ Cardinality(RaceEntries) = 1
        /\ \A f \in RaceEntries :
              \E c \in Callers : f.data.schedule = JsonSchedule(race[c].got)
        /\ \A c \in Callers : race[c].ret = race[c].got

\* C32 amended: each caller received the result of its own fetch; when at least
\* one fetch returned a non-empty schedule the cache holds exactly one entry
\* for the group and week, the non-empty result that was returned last; when
\* both fetches returned the empty schedule the cache holds no entry for it.
C32_RaceLastWriter ==
    BothFetched =>
        /\ \A c \in Callers : race[c].ret = race[c].got
        /\ Stored = {} => RaceEntries = {}
        /\ Stored # {} =>
              LET last == CHOOSE c \in Stored : \A k \in Stored : race[k].seq <= race[c].seq
              IN  /\ Cardinality(RaceEntries) = 1
                  /\ \A f \in RaceEntries :
                        f.data.schedule = JsonSchedule(race[last].got)

\* both callers missed, the source changed between the two fetches, and the
\* entry is the result of the fetch that returned last
C32_Witness ==
    /\ BothFetched
    /\ race[1].got # EmptyMap /\ race[2].got # EmptyMap /\ race[1].got # race[2].got
    /\ race[1].seq = 2
    /\ \E f \in RaceEntries : f.data.schedule = JsonSchedule(race[1].got)

\* the entries of the last call's directory, after its sweep, that the scan for
\* its group and date opens
Opened == LoadHits(call.swept, call.g, call.d)

\* C33: a storage failure is treated as a miss and never propagates.  No
\* storage operation raises.  A call of get_schedule_data that finds only
\* unreadable or malformed entries for its group and date goes on to the fetch
\* and returns what the parser gave, also when the write fails; a snapshot that
\* cannot be read is an absent snapshot; a fingerprint file that cannot be read
\* is the empty map.
C33_StorageFailureIsMiss ==
    /\ ~call.raised
    /\ call.op = "get" =>
          /\ (\A f \in Opened : IsDamaged(f.data)) =>
                /\ ~call.hit
                /\ url_map[call.g] # None => call.fetched /\ call.ret = call.parsed
          /\ call.hit => \E f \in Opened : ~IsDamaged(f.data) /\ call.ret = f.data.schedule
    /\ call.op = "load_week" =>
          call.ret = IF WeekFile \in DOMAIN disk.weeks /\ ~IsDamaged(disk.weeks[WeekFile])
                     THEN disk.weeks[WeekFile].json ELSE EmptyMap
    /\ call.op = "load_state" =>
          call.ret = IF disk.state # AbsentFile /\ ~IsDamaged(disk.state)
                     THEN disk.state.json ELSE EmptyMap

\* a call of get_schedule_data found a damaged entry for its group and date,
\* fetched, and its write failed; the snapshot and the fingerprint file are
\* damaged as well
C33_Witness ==
    /\ call.op = "get" /\ Opened # {} /\ \A f \in Opened : IsDamaged(f.data)
    /\ call.fetched /\ call.ret # EmptyMap
    /\ \E f \in cache : f \in Opened
    /\ WeekFile \in DOMAIN disk.weeks /\ IsDamaged(disk.weeks[WeekFile])
    /\ IsDamaged(disk.state)

\* the step is a call of get_schedule_data with the arguments of the call
\* before it, which fetched a non-empty schedule and saved it
SecondCall ==
    /\ call.op = "get" /\ call.fetched /\ call.ret # EmptyMap
    /\ site' = site /\ <<cache, call>>' # <<cache, call>>
    /\ call'.op = "get" /\ call'.g = call.g /\ call'.d = call.d
    /\ call'.before = cache

\* C34: after get_schedule_data(G, D) fetched a non-empty schedule and saved
\* it, the next get_schedule_data(G, D) is served from the cache without a
\* fetch, whatever day of the week D is.
C34_SecondCallCached ==
    [][SecondCall => (call'.hit /\ ~call'.fetched)]_vars

\* the entry the last call wrote
Written ==
    LET w == week_mon_sat_for_display(call.d)
    IN  {f \in cache : f.stem = _schedule_filename(call.g, w[1], w[2])}

\* C35: the schedule a call fetched and saved is read back from the entry as
\* it was saved, pair-number keys included: _pair_cells and
\* _max_pairs_for_day answer the same on the parsed schedule and on the
\* schedule of the entry.
C35_SaveLoadRoundTrip ==
    (call.op = "get" /\ call.fetched /\ call.parsed # EmptyMap) =>
        \A f \in Written :
            /\ f.data.schedule = call.parsed
            /\ \A d \in DOMAIN call.parsed :
                  /\ _max_pairs_for_day(f.data.schedule[d])
                       = _max_pairs_for_day(call.parsed[d])
                  /\ \A n \in 1..NumPairs :
                        _pair_cells(f.data.schedule[d], n) = _pair_cells(call.parsed[d], n)

\* C36: the entries of distinct groups are isolated: a schedule returned from
\* the cache for group G is the one of an entry saved for G itself, and every
\* entry holds what was saved for the group its name starts with.
C36_GroupsIsolated ==
    /\ (call.op = "get" /\ call.hit) =>
          \E f \in call.swept : f.data.group = call.g /\ f.data.schedule = call.ret
    /\ \A f \in cache :
          f.stem = _schedule_filename(f.data.group, f.data.monday, f.data.saturday)

\* the pairs of a slot map that hold a lesson
Populated(slots) == {k \in DOMAIN slots : _norm_join(slots[k]) # ""}

\* a message went out, or was on its way, in the last iteration
MessageBuilt == iter.kind \in {"notified", "aborted"}

\* C37: every notification is for a (group, date) whose fresh day has at least
\* one populated pair; an iteration whose fresh day has no populated pair
\* builds no message and sends nothing, in every cycle.
C37_NoMessageForEmptyDay ==
    /\ MessageBuilt => Populated(iter.new_slots) # {}
    /\ (iter.kind # "none" /\ Populated(iter.new_slots) = {}) =>
          iter.sentTo = {} /\ iter.msg = <<>>

\* a day that had lessons was observed without any, and no message was built
C37_Witness ==
    /\ iter.kind = "falsecancel"
    /\ Populated(iter.old_slots) # {} /\ Populated(iter.new_slots) = {}
    /\ iter.msg = <<>>

\* the users the message of the last iteration reached
Delivered == iter.sentTo \ iter.failed

\* the last iteration notified its (group, date): its fingerprint is stored
FingerprintOfNotified ==
    (MessageBuilt /\ Delivered # {}) =>
        /\ <<iter.g, iter.d>> \in DOMAIN state
        /\ state[<<iter.g, iter.d>>] = Fingerprint(iter.ch)

\* between two cycles the fingerprint file holds the map of the loop
PersistedEqualsMemory == queue = <<>> => stateFile = state

\* a step that changes the map is a dispatch for the one key it changes, made
\* after the message was sent to every recipient
ChangedByDispatch ==
    state' # state =>
        /\ iter'.kind = "notified"
        /\ iter'.sentTo = Attempted(get_users_for_schedule_notifications(iter'.g))
        /\ state' = Put(state, <<iter'.g, iter'.d>>, Fingerprint(iter'.ch))

\* C38: the stored fingerprint of (G, D) changes only in an iteration that
\* dispatched a notification for (G, D), after the sends to all its recipients
\* were attempted; after an iteration that notified (G, D), and so at the cycle
\* boundary, it is the fingerprint of the diff notified; between cycles the
\* persisted map equals the one in memory.
C38_FingerprintTracksNotified ==
    [][ChangedByDispatch /\ FingerprintOfNotified' /\ PersistedEqualsMemory']_vars

\* C39: every row that carries a row-span date cell with a well-formed date
\* yields a date key, and every pair is recorded under the date of the block
\* its row belongs to, for date blocks of any number of rows: the result has
\* the dates of the blocks, and a block that is the only one of its date gives
\* the day it gives when parsed alone.
C39_BlocksOfAnyLength ==
    (parseIn \in ShortBlockInputs /\ parseOut.called) =>
        LET bs == PageBlocks
        IN  /\ ~parseOut.raised
            /\ DOMAIN parseOut.value = {bs[k].date.d : k \in DOMAIN bs}
            /\ \A k \in DOMAIN bs :
                 (\A j \in DOMAIN bs : j # k => bs[j].date.d # bs[k].date.d)
                     => /\ bs[k].date.d \in DOMAIN parseOut.value
                        /\ DayPairs(parseOut.value[bs[k].date.d]) = AloneDay(bs[k])

====
